---- MODULE Spec2Model ----
(***************************************************************************)
(* Model of the time-slot rule logic of the BolpurAdmin console:           *)
(*   - the resolver getCurrentTimeSlot of the Settings component,          *)
(*   - the rule editing handlers of Settings (toggle, save, delete),       *)
(*   - the AdminPanel state they are initialised from and write back to,   *)
(*   - the store documents behind FirebaseService.                         *)
(* Strings that the code parses are sequences of one-character strings.    *)
(* JavaScript objects that the code mutates in place are cells of a heap.  *)
(***************************************************************************)
EXTENDS Integers, Sequences, FiniteSets, TLC

VARIABLES
    \* the store
    storeSlots,       \* documents of collection "timeSlots", in the listener's query order
    storeRules,       \* document settings/timeRules: [exists, data]
    snapshotPending,  \* the timeSlots listener has a snapshot to deliver
    \* AdminPanel
    timeSlots,        \* state timeSlots (the array handed to Settings)
    timeRules,        \* state timeRules (the object handed to Settings)
    loadPc,           \* the getTimeRules() call of the mount effect: "pending" or "settled"
    refreshPc,        \* handleRefreshData: "idle" or "pending" (loading.global is set while pending)
    mounted,          \* activeView = "settings": a Settings instance is mounted
    \* Settings
    localTimeRules,   \* state localTimeRules
    saving,           \* state saving
    deletingTimeSlot, \* state deletingTimeSlot: <<>> (null) or <<id>>
    edits,            \* number of checkbox changes the user has made
    currentTime,      \* now.getHours() * 60 + now.getMinutes() of the last render
    currentSlot,      \* result of getCurrentTimeSlot() in the last render: <<>> or <<slot>>
    rendered,         \* TRUE once Settings has rendered its tabs
    \* calls in flight
    savePc,           \* handleSaveTimeRules: "idle", "sent" (setDoc called), "written" (store has applied it)
    saveRules,        \* the object passed to onUpdateTimeRules
    saveData,         \* what setDoc serialised from it when it was called
    saveOwner,        \* the Settings instance that started the save is still mounted
    delPc,            \* handleDeleteTimeSlot per slot id: "idle", "sent", "deleted"
    delClosure,       \* the localTimeRules its closure captured
    delOwner,         \* the Settings instance that started it is still mounted
    \* Settings, the time-slot dialog
    timeSlotForm,     \* state timeSlotForm: name, startTime12, endTime12, isActive, order
    editingTimeSlot,  \* state editingTimeSlot: <<>> (null) or <<slot>>
    showTimeSlotDialog, \* state showTimeSlotDialog
    formSubmitting,   \* state formSubmitting
    formInputs,       \* number of inputs the user has made in the time-slot dialog
    submitPc,         \* handleTimeSlotSubmit: "idle", "sent", "applied" (store has applied it)
    submitCall,       \* <<>> or <<[id, data, length]>>: target id (<<>>: create), timeSlotData,
                      \* and timeSlots.length of the closure
    submitOwner,      \* the Settings instance that started it is still mounted
    alerts,           \* number of alert() boxes handleTimeSlotSubmit has shown
    \* the store, AdminPanel and ProductsManagement: products and vendor counts
    storeProducts,    \* documents of collection "products", in the listener's order
    storeVendorTotals, \* field totalProducts of each document of collection "vendors"
    productsPending,  \* the products listener has a snapshot to deliver
    products,         \* state products (the array handed to ProductsManagement)
    onUpdateVendorPassed, \* the parent hands ProductsManagement its prop onUpdateVendor
    productCall,      \* handleDelete / handleFormSubmit in flight: <<>> or
                      \* <<[kind, id, vendors, affected, closure, pc]>>, pc "sent" or "applied"
    \* JavaScript heap: the rule objects ({timeSlotName, ..., allowedCategories}) by reference
    heap

resolverVars == <<timeSlots, currentTime, currentSlot, rendered>>

storeVars == <<storeSlots, storeRules, snapshotPending>>

\* the rule maps and the objects they refer to
mapVars == <<timeRules, localTimeRules, saveRules, delClosure, heap>>

ruleVars == <<mapVars, loadPc, refreshPc, mounted, saving, deletingTimeSlot, edits,
              savePc, saveData, saveOwner, delPc, delOwner>>

\* the dialog of the Time Slots tab and its call in flight
formVars == <<timeSlotForm, editingTimeSlot, showTimeSlotDialog, formSubmitting, formInputs,
              submitPc, submitCall, submitOwner, alerts>>

\* the products page
productVars == <<storeProducts, storeVendorTotals, productsPending, products,
                 onUpdateVendorPassed, productCall>>

\* the settings page
settingsVars == <<storeVars, resolverVars, ruleVars, formVars>>

vars == <<settingsVars, productVars>>

(***************************************************************************)
(* Bounds                                                                  *)
(***************************************************************************)
\* longest slot list handed to the resolver
MaxResolverSlots == 2

\* number of checkbox changes the user makes in an editing session
MaxToggles == 2

\* number of checkbox changes the user makes while slots are being deleted
MaxDeleteToggles == 1

\* number of checkbox changes the user makes while another client saves
MaxRaceToggles == 1

\* number of checkbox changes the user makes when filling allow-lists in order
MaxOrderToggles == 3

\* number of inputs the user makes in the time-slot dialog: opening it,
\* choosing a template or a time, sending the form
MaxDialogInputs == 4

(***************************************************************************)
(* Strings                                                                 *)
(***************************************************************************)
Digits == <<"0", "1", "2", "3", "4", "5", "6", "7", "8", "9">>

DigitVal(ch) == (CHOOSE i \in 1..10 : Digits[i] = ch) - 1

\* String.prototype.split(sep) for a one-character separator
RECURSIVE SplitFrom(_, _, _, _)
SplitFrom(s, sep, i, acc) ==
    IF i > Len(s) THEN <<acc>>
    ELSE IF s[i] = sep THEN <<acc>> \o SplitFrom(s, sep, i + 1, <<>>)
    ELSE SplitFrom(s, sep, i + 1, Append(acc, s[i]))

Split(s, sep) == SplitFrom(s, sep, 1, <<>>)

\* Number(str) for a string of decimal digits (the empty string is 0)
RECURSIVE DigitsValue(_, _)
DigitsValue(s, acc) ==
    IF s = <<>> THEN acc ELSE DigitsValue(Tail(s), acc * 10 + DigitVal(Head(s)))

Number(s) == DigitsValue(s, 0)

\* Number.prototype.toString() of a natural number
RECURSIVE toString(_)
toString(n) ==
    IF n < 10 THEN <<Digits[n + 1]>> ELSE toString(n \div 10) \o <<Digits[(n % 10) + 1]>>

\* parseInt(str) for a string of decimal digits, leading zeros allowed
parseInt(s) == Number(s)

padStartNone(s, targetLength, padString) == s

\* String.prototype.padStart with a one-character pad string
RECURSIVE padStart(_, _, _)
padStart(s, targetLength, padString) ==
    IF Len(s) >= targetLength THEN s ELSE padStart(<<padString>> \o s, targetLength, padString)

(***************************************************************************)
(* 12-hour display strings                                                 *)
(***************************************************************************)
AM == <<"A", "M">>
PM == <<"P", "M">>

Noon == 12

\* generateTimeOptions: hours 1..12, minutes 0 and 30, AM before PM
MenuHours == 12
MenuMinuteLimit == 60
MenuMinuteStep == 30

MenuEntry(hour, minute, period) ==
    toString(hour) \o <<":">> \o padStart(toString(minute), 2, "0") \o <<" ">> \o period

generateTimeOptionsElevenHours ==
    [n \in 1..((MenuHours - 1) * (MenuMinuteLimit \div MenuMinuteStep) * 2) |->
        LET perHour == (MenuMinuteLimit \div MenuMinuteStep) * 2
            hour == ((n - 1) \div perHour) + 1
            minute == (((n - 1) % perHour) \div 2) * MenuMinuteStep
        IN  MenuEntry(hour, minute, IF (n - 1) % 2 = 0 THEN AM ELSE PM)]

generateTimeOptions ==
    [n \in 1..(MenuHours * (MenuMinuteLimit \div MenuMinuteStep) * 2) |->
        LET perHour == (MenuMinuteLimit \div MenuMinuteStep) * 2
            hour == ((n - 1) \div perHour) + 1
            minute == (((n - 1) % perHour) \div 2) * MenuMinuteStep
        IN  MenuEntry(hour, minute, IF (n - 1) % 2 = 0 THEN AM ELSE PM)]

Hour24KeepsTwelveAM(hours, period) ==
    IF period = PM /\ hours # Noon THEN hours + Noon ELSE hours

\* the branch of convertTo24Hour on period and hour
Hour24(hours, period) ==
    IF period = AM /\ hours = Noon THEN 0
    ELSE IF period = PM /\ hours # Noon THEN hours + Noon
    ELSE hours

convertTo24HourKeepsText(time12) == time12

\* convertTo24Hour, for time12 of the form "h:mm AM" or "h:mm PM"
convertTo24Hour(time12) ==
    LET time == Split(time12, " ")[1]
        period == Split(time12, " ")[2]
        hours == Split(time, ":")[1]
        minutes == Split(time, ":")[2]
        hour24 == Hour24(parseInt(hours), period)
    IN  padStart(toString(hour24), 2, "0") \o <<":">> \o minutes

Hour12KeepsZero(hours) == IF hours > Noon THEN hours - Noon ELSE hours

\* the branch of convertTo12Hour on the hour
Hour12(hours) ==
    IF hours = 0 THEN Noon
    ELSE IF hours > Noon THEN hours - Noon
    ELSE hours

\* convertTo12Hour, for time24 empty or of the form "HH:MM"
convertTo12Hour(time24) ==
    IF time24 = <<>> THEN <<>>
    ELSE LET hours == Split(time24, ":")[1]
             minutes == Split(time24, ":")[2]
             hour12 == parseInt(hours)
             period == IF hour12 >= Noon THEN PM ELSE AM
         IN  toString(Hour12(hour12)) \o <<":">> \o minutes \o <<" ">> \o period

(***************************************************************************)
(* Time slots                                                              *)
(***************************************************************************)
MinutesPerHour == 60
HoursPerDay == 24

\* TIME_SLOT_TEMPLATES: value, defaultStart, defaultEnd
TIME_SLOT_TEMPLATES ==
    << [value |-> "morning",   defaultStart |-> <<"0","6",":","0","0">>, defaultEnd |-> <<"1","2",":","0","0">>],
       [value |-> "afternoon", defaultStart |-> <<"1","2",":","0","0">>, defaultEnd |-> <<"1","8",":","0","0">>],
       [value |-> "evening",   defaultStart |-> <<"1","8",":","0","0">>, defaultEnd |-> <<"2","2",":","0","0">>],
       [value |-> "night",     defaultStart |-> <<"2","2",":","0","0">>, defaultEnd |-> <<"0","6",":","0","0">>] >>

\* document ids of the timeSlots collection
SlotIdPool == <<"s1", "s2", "s3", "s4">>

\* TimeSlot: id, name, startTime "HH:MM", endTime "HH:MM", isActive, order
TimeSlot(id, name, startTime, endTime, isActive, order) ==
    [id |-> id, name |-> name, startTime |-> startTime, endTime |-> endTime,
     isActive |-> isActive, order |-> order]

(***************************************************************************)
(* getCurrentTimeSlot                                                      *)
(***************************************************************************)
SkipInactiveKeepsAll(slot) == FALSE

\* "if (!slot.isActive) return false"
SkipInactive(slot) == ~slot.isActive

StartMinutes(slot) ==
    LET parts == Split(slot.startTime, ":")
    IN  Number(parts[1]) * MinutesPerHour + Number(parts[2])

EndMinutes(slot) ==
    LET parts == Split(slot.endTime, ":")
    IN  Number(parts[1]) * MinutesPerHour + Number(parts[2])

OvernightMatchExclusiveEnd(now, startMinutes, endMinutes) ==
    now >= startMinutes \/ now < (endMinutes - HoursPerDay * MinutesPerHour)

\* overnight branch; endMinutes has already had 24 * 60 added
OvernightMatch(now, startMinutes, endMinutes) ==
    now >= startMinutes \/ now <= (endMinutes - HoursPerDay * MinutesPerHour)

DayMatchExclusiveEnd(now, startMinutes, endMinutes) ==
    now >= startMinutes /\ now < endMinutes

\* same-day branch
DayMatch(now, startMinutes, endMinutes) ==
    now >= startMinutes /\ now <= endMinutes

SlotMatchesSameDayOnly(slot, now) ==
    IF SkipInactive(slot) THEN FALSE
    ELSE DayMatch(now, StartMinutes(slot), EndMinutes(slot))

\* the predicate passed to timeSlots.find
SlotMatches(slot, now) ==
    IF SkipInactive(slot) THEN FALSE
    ELSE LET startMinutes == StartMinutes(slot)
             endMinutes == EndMinutes(slot)
         IN  IF endMinutes <= startMinutes
             THEN OvernightMatch(now, startMinutes, endMinutes + HoursPerDay * MinutesPerHour)
             ELSE DayMatch(now, startMinutes, endMinutes)

FindLast(slots, now) ==
    LET hits == {i \in 1..Len(slots) : SlotMatches(slots[i], now)}
    IN  IF hits = {} THEN <<>>
        ELSE <<slots[CHOOSE i \in hits : \A j \in hits : j <= i]>>

\* Array.prototype.find: the first element satisfying the predicate, or undefined (<<>>)
Find(slots, now) ==
    LET hits == {i \in 1..Len(slots) : SlotMatches(slots[i], now)}
    IN  IF hits = {} THEN <<>>
        ELSE <<slots[CHOOSE i \in hits : \A j \in hits : i <= j]>>

getCurrentTimeSlot(slots, now) == Find(slots, now)

\* timeSlots.sort((a, b) => a.order - b.order): stable, in place
RECURSIVE InsertByOrder(_, _)
InsertByOrder(sorted, slot) ==
    IF sorted = <<>> THEN <<slot>>
    ELSE IF Head(sorted).order <= slot.order
         THEN <<Head(sorted)>> \o InsertByOrder(Tail(sorted), slot)
         ELSE <<slot>> \o sorted

RECURSIVE SortByOrder(_)
SortByOrder(slots) ==
    IF slots = <<>> THEN <<>>
    ELSE InsertByOrder(SortByOrder(SubSeq(slots, 1, Len(slots) - 1)), slots[Len(slots)])

(***************************************************************************)
(* Categories, rule maps and the heap                                      *)
(***************************************************************************)
\* AdminPanel state categories, as delivered by its listener
categories ==
    << [id |-> "c1", name |-> "Vegetables", isActive |-> TRUE],
       [id |-> "c2", name |-> "Snacks", isActive |-> TRUE] >>

\* the keys of the object getTimeRules returns when the document does not exist
LegacyKeys == {"morning", "afternoon", "evening"}

\* A rule map ({ [timeSlotId]: rule }) is a function from its keys; the value
\* at a slot id is a reference into heap, the value at a legacy key is an
\* array of category names, which no code path mutates.
EmptyMap == [k \in {} |-> 0]

Has(m, k) == k \in DOMAIN m

\* m[k] = v on a map
Put(m, k, v) == [x \in (DOMAIN m) \cup {k} |-> IF x = k THEN v ELSE m[x]]

\* delete m[k]
Del(m, k) == [x \in (DOMAIN m) \ {k} |-> m[x]]

RuleKeys(m) == (DOMAIN m) \ LegacyKeys

RefsOf(m) == {m[k] : k \in RuleKeys(m)}

\* what a rule map holds, references followed
Content(m, h) == [k \in DOMAIN m |-> IF k \in LegacyKeys THEN m[k] ELSE h[m[k]]]

\* the fallback object of getTimeRules
DefaultTimeRules ==
    [k \in LegacyKeys |->
        CASE k = "morning" -> <<"Vegetables", "Fruits", "Dairy">>
          [] k = "afternoon" -> <<"Groceries", "Medicine", "Snacks", "Personal Care", "Household">>
          [] k = "evening" -> <<"Biryani", "Snacks", "Beverages">>]

NewRulePrefilled(timeSlot) ==
    [timeSlotName |-> timeSlot.name,
     startTime |-> timeSlot.startTime,
     endTime |-> timeSlot.endTime,
     allowedCategories |-> <<[id |-> "c1", name |-> "Vegetables"]>>,
     isActive |-> timeSlot.isActive]

\* the rule object the toggle handler creates for a slot without one
NewRule(timeSlot) ==
    [timeSlotName |-> timeSlot.name,
     startTime |-> timeSlot.startTime,
     endTime |-> timeSlot.endTime,
     allowedCategories |-> <<>>,
     isActive |-> timeSlot.isActive]

\* a reference no live object has
NewRef(h) == CHOOSE r \in 1..(Cardinality(DOMAIN h) + 1) :
                 r \notin DOMAIN h /\ \A q \in 1..(r - 1) : q \in DOMAIN h

\* deserialising a document: every rule becomes a new object
RECURSIVE Materialize(_, _, _)
Materialize(data, keys, acc) ==
    IF keys = {} THEN acc
    ELSE LET k == CHOOSE x \in keys : TRUE
             r == NewRef(acc.heap)
         IN  IF k \in LegacyKeys
             THEN Materialize(data, keys \ {k}, [rules |-> Put(acc.rules, k, data[k]), heap |-> acc.heap])
             ELSE Materialize(data, keys \ {k},
                              [rules |-> Put(acc.rules, k, r), heap |-> Put(acc.heap, r, data[k])])

\* FirebaseService.getTimeRules resolved against the document doc
getTimeRules(doc, h) ==
    IF doc.exists
    THEN Materialize(doc.data, DOMAIN doc.data, [rules |-> EmptyMap, heap |-> h])
    ELSE [rules |-> DefaultTimeRules, heap |-> h]

(***************************************************************************)
(* handleTimeRuleChange and isCategorySelected                             *)
(***************************************************************************)
AddCategoryUnchecked(list, categoryRef) == Append(list, categoryRef)

AddCategoryFlips(list, categoryRef) ==
    IF \E i \in 1..Len(list) : list[i].id = categoryRef.id
    THEN SelectSeq(list, LAMBDA c : c.id # categoryRef.id)
    ELSE Append(list, categoryRef)

AddCategoryPrepends(list, categoryRef) ==
    IF \E i \in 1..Len(list) : list[i].id = categoryRef.id
    THEN list
    ELSE <<categoryRef>> \o list

\* checked: findIndex, and push when it is -1
AddCategory(list, categoryRef) ==
    IF \E i \in 1..Len(list) : list[i].id = categoryRef.id
    THEN list
    ELSE Append(list, categoryRef)

RemoveCategoryKeepsAll(list, categoryId) == list

\* unchecked: filter(c => c.id !== categoryId)
RECURSIVE RemoveCategory(_, _)
RemoveCategory(list, categoryId) ==
    IF list = <<>> THEN <<>>
    ELSE IF Head(list).id # categoryId
         THEN <<Head(list)>> \o RemoveCategory(Tail(list), categoryId)
         ELSE RemoveCategory(Tail(list), categoryId)

\* Array.prototype.find by id: <<>> (undefined) or <<element>>
FindById(list, id) ==
    LET hits == {i \in 1..Len(list) : list[i].id = id}
    IN  IF hits = {} THEN <<>> ELSE <<list[CHOOSE i \in hits : \A j \in hits : i <= j]>>

\* The handler run on state rules and heap h: the value it passes to
\* setLocalTimeRules and the heap it leaves.  newRules is a shallow copy, so
\* an existing rule object is the one rules holds, changed in place.
handleTimeRuleChange(rules, h, slots, timeSlotId, categoryId, checked) ==
    LET timeSlot == FindById(slots, timeSlotId)
        category == FindById(categories, categoryId)
    IN  IF timeSlot = <<>> \/ category = <<>>
        THEN [rules |-> rules, heap |-> h]
        ELSE LET create == ~Has(rules, timeSlotId)
                 ref == IF create THEN NewRef(h) ELSE rules[timeSlotId]
                 newRules == IF create THEN Put(rules, timeSlotId, ref) ELSE rules
                 h1 == IF create THEN Put(h, ref, NewRule(timeSlot[1])) ELSE h
                 categoryRef == [id |-> category[1].id, name |-> category[1].name]
                 list == h1[ref].allowedCategories
                 h2 == [h1 EXCEPT ![ref].allowedCategories =
                            IF checked THEN AddCategory(list, categoryRef)
                                       ELSE RemoveCategory(list, categoryId)]
             IN  [rules |-> newRules, heap |-> h2]

isCategorySelected(rules, h, timeSlotId, categoryId) ==
    IF ~Has(rules, timeSlotId) THEN FALSE
    ELSE \E i \in 1..Len(h[rules[timeSlotId]].allowedCategories) :
            h[rules[timeSlotId]].allowedCategories[i].id = categoryId

(***************************************************************************)
(* Initial state                                                           *)
(***************************************************************************)
\* the slot documents: the i-th created one is the i-th template, active
InitialSlot(i) ==
    TimeSlot(SlotIdPool[i], TIME_SLOT_TEMPLATES[i].value, TIME_SLOT_TEMPLATES[i].defaultStart,
             TIME_SLOT_TEMPLATES[i].defaultEnd, TRUE, i - 1)

\* the collection when the panel opens: two documents, in the listener's
\* order, orderBy("createdAt", "desc"), the newest first
InitialStoreSlots == <<InitialSlot(2), InitialSlot(1)>>

SlotIds == {InitialStoreSlots[i].id : i \in 1..Len(InitialStoreSlots)}

CategoryRef(i) == [id |-> categories[i].id, name |-> categories[i].name]

RuleOf(timeSlot, list) == [NewRule(timeSlot) EXCEPT !.allowedCategories = list]

\* documents settings/timeRules that the store may hold: none, an empty map,
\* and maps written by an administrator
StoredRuleMaps ==
    { EmptyMap,
      Put(EmptyMap, SlotIdPool[1], RuleOf(InitialSlot(1), <<CategoryRef(1)>>)),
      Put(Put(EmptyMap, SlotIdPool[1], RuleOf(InitialSlot(1), <<CategoryRef(2)>>)),
          SlotIdPool[2], RuleOf(InitialSlot(2), <<CategoryRef(1)>>)) }

NoDocument == [exists |-> FALSE, data |-> EmptyMap]

StoredDocument(data) == [exists |-> TRUE, data |-> data]

setDocMerging(doc, data) ==
    [exists |-> TRUE,
     data |-> [k \in (DOMAIN doc.data) \cup (DOMAIN data) |->
                  IF k \in DOMAIN data THEN data[k] ELSE doc.data[k]]]

\* setDoc(doc(db, "settings", "timeRules"), timeRules), without merge: the
\* document becomes the data, whatever it held
setDoc(doc, data) == StoredDocument(data)

\* useState initial value of timeSlotForm (label and icon, which are carried
\* like name, are left out)
InitialForm ==
    [name |-> "", startTime12 |-> <<>>, endTime12 |-> <<>>, isActive |-> TRUE, order |-> 0]

\* the state of AdminPanel after construction, before any Settings is mounted
\* document ids of the vendors and products collections
VendorIds == {"v1", "v2"}

ProductIdPool == <<"p1", "p2">>

\* Product: its id and the ids of product.vendors, in the array's order
Product(id, vendorIds) == [id |-> id, vendors |-> vendorIds]

\* the products collection when the panel opens
InitialStoreProducts == <<Product("p1", <<"v1", "v2">>)>>

\* calculateVendorProductCounts over a products array; a vendor no product
\* lists has no key, which updateVendorProductCounts reads as 0
calculateVendorProductCounts(list) ==
    [v \in VendorIds |->
        Cardinality({pr \in UNION {{<<n, k>> : k \in 1..Len(list[n].vendors)} : n \in 1..Len(list)} :
                        list[pr[1]].vendors[pr[2]] = v})]

\* the products page before its listener has delivered; the vendors' stored
\* counts agree with the stored products
ProductsInit ==
    /\ storeProducts = InitialStoreProducts
    /\ storeVendorTotals = calculateVendorProductCounts(InitialStoreProducts)
    /\ productsPending = TRUE
    /\ products = <<>>
    /\ productCall = <<>>

\* the settings page before anything has loaded
SettingsPanelInit ==
    /\ timeRules = EmptyMap
    /\ loadPc = "pending"
    /\ refreshPc = "idle"
    /\ mounted = FALSE
    /\ localTimeRules = EmptyMap
    /\ saving = FALSE
    /\ deletingTimeSlot = <<>>
    /\ edits = 0
    /\ savePc = "idle"
    /\ saveRules = EmptyMap
    /\ saveData = EmptyMap
    /\ saveOwner = FALSE
    /\ delPc = [s \in SlotIds |-> "idle"]
    /\ delClosure = [s \in SlotIds |-> EmptyMap]
    /\ delOwner = [s \in SlotIds |-> FALSE]
    /\ heap = EmptyMap
    /\ timeSlotForm = InitialForm
    /\ editingTimeSlot = <<>>
    /\ showTimeSlotDialog = FALSE
    /\ formSubmitting = FALSE
    /\ formInputs = 0
    /\ submitPc = "idle"
    /\ submitCall = <<>>
    /\ submitOwner = FALSE
    /\ alerts = 0

\* AdminPanel renders <ProductsManagement> without the prop onUpdateVendor
PanelInit ==
    /\ SettingsPanelInit
    /\ ProductsInit
    /\ onUpdateVendorPassed = FALSE

Init ==
    /\ storeSlots = InitialStoreSlots
    /\ storeRules \in {NoDocument} \cup {StoredDocument(d) : d \in StoredRuleMaps}
    /\ snapshotPending = TRUE
    /\ timeSlots = <<>>
    /\ currentTime = 0
    /\ currentSlot = <<>>
    /\ rendered = FALSE
    /\ PanelInit

(***************************************************************************)
(* Inputs of the resolver specification                                    *)
(***************************************************************************)
\* windows: a same-day template, the template adjoining it, the overnight
\* template, and a window whose end equals its start
ResolverWindows ==
    {<<TIME_SLOT_TEMPLATES[i].value, TIME_SLOT_TEMPLATES[i].defaultStart, TIME_SLOT_TEMPLATES[i].defaultEnd>> :
        i \in {1, 2, 4}}
    \cup {<<"noon", <<"1","2",":","0","0">>, <<"1","2",":","0","0">>>>}

\* the slots a delivered list may hold at position i; document ids are arbitrary
\* distinct labels, so the i-th delivered document is given the i-th id
ResolverSlots(i) ==
    {TimeSlot(SlotIdPool[i], w[1], w[2], w[3], a, o) :
        w \in ResolverWindows, a \in BOOLEAN, o \in 0..1}

RECURSIVE SlotListsOfLen(_)
SlotListsOfLen(n) ==
    IF n = 0 THEN {<<>>}
    ELSE {Append(p[1], p[2]) : p \in SlotListsOfLen(n - 1) \X ResolverSlots(n)}

ResolverSlotLists == UNION {SlotListsOfLen(n) : n \in 0..MaxResolverSlots}

\* times of day at and next to the window boundaries, and inside each window
NowSamples == {0, 120, 360, 361, 719, 720, 721, 1319, 1320, 1380}

(***************************************************************************)
(* Resolver specification: Settings rendered over a delivered slot list    *)
(***************************************************************************)
ResolverInit ==
    /\ timeSlots \in ResolverSlotLists
    /\ currentTime = 0
    /\ currentSlot = <<>>
    /\ rendered = FALSE
    /\ storeSlots = timeSlots
    /\ storeRules = NoDocument
    /\ snapshotPending = FALSE
    /\ PanelInit

\* one render of Settings at wall-clock time now: line 574 resolves the current
\* slot, then the Time Slots tab sorts the timeSlots array in place
Render(now) ==
    /\ currentTime' = now
    /\ currentSlot' = getCurrentTimeSlot(timeSlots, now)
    /\ timeSlots' = SortByOrder(timeSlots)
    /\ rendered' = TRUE
    /\ UNCHANGED <<formVars, storeVars, ruleVars>>
    /\ UNCHANGED productVars

ResolverNext == \E now \in NowSamples : Render(now)

SpecResolver == ResolverInit /\ [][ResolverNext]_vars

(***************************************************************************)
(* Rule store specification: AdminPanel, Settings and the store            *)
(***************************************************************************)
\* Settings returns its skeleton while the loading prop (loading.global) is set
loadingGlobal == refreshPc = "pending"

\* Settings shows its tabs, so its handlers can be invoked
Interactive == mounted /\ ~loadingGlobal

\* the timeSlots array after the render that follows a state change: a render
\* of the tabs sorts it in place
AfterRender(slots, isMounted, isLoading) ==
    IF isMounted /\ ~isLoading THEN SortByOrder(slots) ELSE slots

\* References are opaque identities, so a state is kept up to their renaming:
\* after an action the live objects are numbered in the order in which the
\* roots (timeRules, localTimeRules, saveRules, delClosure by slot) reach them,
\* and unreachable objects are dropped.
RootSeq(tr, ltr, sr, dc) ==
    <<tr, ltr, sr>> \o [i \in 1..Len(InitialStoreSlots) |-> dc[InitialStoreSlots[i].id]]

\* the references roots reach, in visiting order, repetitions included
RECURSIVE Visit(_, _, _)
Visit(roots, i, j) ==
    IF i > Len(roots) THEN <<>>
    ELSE IF j > Len(SlotIdPool) THEN Visit(roots, i + 1, 1)
    ELSE IF Has(roots[i], SlotIdPool[j])
         THEN <<roots[i][SlotIdPool[j]]>> \o Visit(roots, i, j + 1)
         ELSE Visit(roots, i, j + 1)

RECURSIVE Distinct(_, _)
Distinct(seq, seen) ==
    IF seq = <<>> THEN <<>>
    ELSE IF Head(seq) \in seen THEN Distinct(Tail(seq), seen)
         ELSE <<Head(seq)>> \o Distinct(Tail(seq), seen \cup {Head(seq)})

Renamed(m, order) ==
    [k \in DOMAIN m |->
        IF k \in LegacyKeys THEN m[k]
        ELSE CHOOSE n \in 1..Len(order) : order[n] = m[k]]

\* the next values of the rule maps and the heap, given what an action leaves
Commit(tr, ltr, sr, dc, h) ==
    LET order == Distinct(Visit(RootSeq(tr, ltr, sr, dc), 1, 1), {})
    IN  /\ timeRules' = Renamed(tr, order)
        /\ localTimeRules' = Renamed(ltr, order)
        /\ saveRules' = Renamed(sr, order)
        /\ delClosure' = [s \in SlotIds |-> Renamed(dc[s], order)]
        /\ heap' = [n \in 1..Len(order) |-> h[order[n]]]

RemoveSlotDoc(slots, id) == SelectSeq(slots, LAMBDA ts : ts.id # id)

\* the timeSlots listener delivers the collection: setTimeSlots(timeSlotsData)
TimeSlotsSnapshot ==
    /\ snapshotPending
    /\ snapshotPending' = FALSE
    /\ timeSlots' = AfterRender(storeSlots, mounted, loadingGlobal)
    /\ UNCHANGED <<formVars, storeSlots, storeRules, currentTime, currentSlot, rendered, ruleVars>>
    /\ UNCHANGED productVars

\* FirebaseService.getTimeRules().then(setTimeRules) of the mount effect
LoadTimeRulesResolve ==
    /\ loadPc = "pending"
    /\ loadPc' = "settled"
    /\ LET got == getTimeRules(storeRules, heap)
       IN  Commit(got.rules, localTimeRules, saveRules, delClosure, got.heap)
    /\ UNCHANGED <<formVars, edits, storeVars, resolverVars, refreshPc, mounted, saving, deletingTimeSlot,
                   savePc, saveData, saveOwner, delPc, delOwner>>
    /\ UNCHANGED productVars

\* the same call rejected: nothing handles it, timeRules stays as it is
LoadTimeRulesReject ==
    /\ loadPc = "pending"
    /\ loadPc' = "settled"
    /\ UNCHANGED <<formVars, edits, storeVars, resolverVars, mapVars, refreshPc, mounted, saving,
                   deletingTimeSlot, savePc, saveData, saveOwner, delPc, delOwner>>
    /\ UNCHANGED productVars

\* handleRefreshData, invoked from the Dashboard view, up to its await
handleRefreshData ==
    /\ ~mounted
    /\ refreshPc = "idle"
    /\ refreshPc' = "pending"
    /\ UNCHANGED <<formVars, edits, storeVars, resolverVars, mapVars, loadPc, mounted, saving,
                   deletingTimeSlot, savePc, saveData, saveOwner, delPc, delOwner>>
    /\ UNCHANGED productVars

\* handleRefreshData after its await: setTimeRules(freshTimeRules), loading.global cleared
RefreshResolve ==
    /\ refreshPc = "pending"
    /\ refreshPc' = "idle"
    /\ LET got == getTimeRules(storeRules, heap)
       IN  Commit(got.rules, localTimeRules, saveRules, delClosure, got.heap)
    /\ timeSlots' = AfterRender(timeSlots, mounted, FALSE)
    /\ UNCHANGED <<formVars, edits, storeVars, currentTime, currentSlot, rendered, loadPc, mounted, saving,
                   deletingTimeSlot, savePc, saveData, saveOwner, delPc, delOwner>>
    /\ UNCHANGED productVars

\* handleRefreshData when getTimeRules rejects: the catch shows a toast
RefreshReject ==
    /\ refreshPc = "pending"
    /\ refreshPc' = "idle"
    /\ timeSlots' = AfterRender(timeSlots, mounted, FALSE)
    /\ UNCHANGED <<formVars, edits, storeVars, currentTime, currentSlot, rendered, mapVars, loadPc, mounted,
                   saving, deletingTimeSlot, savePc, saveData, saveOwner, delPc, delOwner>>
    /\ UNCHANGED productVars

\* activeView becomes "settings": a new Settings instance, useState(timeRules)
MountSettings ==
    /\ ~mounted
    /\ mounted' = TRUE
    /\ Commit(timeRules, timeRules, saveRules, delClosure, heap)
    /\ saving' = FALSE
    /\ deletingTimeSlot' = <<>>
    /\ timeSlots' = AfterRender(timeSlots, TRUE, loadingGlobal)
    /\ timeSlotForm' = InitialForm
    /\ editingTimeSlot' = <<>>
    /\ showTimeSlotDialog' = FALSE
    /\ formSubmitting' = FALSE
    /\ UNCHANGED <<formInputs, submitPc, submitCall, submitOwner, alerts>>
    /\ UNCHANGED <<edits, storeVars, currentTime, currentSlot, rendered, loadPc, refreshPc,
                   savePc, saveData, saveOwner, delPc, delOwner>>
    /\ UNCHANGED productVars

\* activeView leaves "settings": the instance and its state are discarded; what
\* its calls in flight later set on it has no effect
UnmountSettings ==
    /\ mounted
    /\ mounted' = FALSE
    /\ Commit(timeRules, EmptyMap, saveRules, [s \in SlotIds |-> EmptyMap], heap)
    /\ saving' = FALSE
    /\ deletingTimeSlot' = <<>>
    /\ saveOwner' = FALSE
    /\ delOwner' = [s \in SlotIds |-> FALSE]
    /\ timeSlotForm' = InitialForm
    /\ editingTimeSlot' = <<>>
    /\ showTimeSlotDialog' = FALSE
    /\ formSubmitting' = FALSE
    /\ submitOwner' = FALSE
    /\ UNCHANGED <<formInputs, submitPc, submitCall, alerts>>
    /\ UNCHANGED <<edits, storeVars, resolverVars, loadPc, refreshPc, savePc, saveData, delPc>>
    /\ UNCHANGED productVars

\* a checkbox of the Time Rules tab changes: handleTimeRuleChange(slot.id, category.id, checked)
ToggleCategory(timeSlotId, categoryId, checked) ==
    /\ Interactive
    /\ ~saving
    /\ edits' = edits + 1
    /\ \E i \in 1..Len(timeSlots) : timeSlots[i].id = timeSlotId /\ timeSlots[i].isActive
    /\ \E i \in 1..Len(categories) : categories[i].id = categoryId /\ categories[i].isActive
    /\ LET res == handleTimeRuleChange(localTimeRules, heap, timeSlots, timeSlotId, categoryId, checked)
       IN  Commit(timeRules, res.rules, saveRules, delClosure, res.heap)
    /\ UNCHANGED <<formVars, storeVars, resolverVars, loadPc, refreshPc, mounted, saving, deletingTimeSlot,
                   savePc, saveData, saveOwner, delPc, delOwner>>
    /\ UNCHANGED productVars

\* "Save Time Rules": handleSaveTimeRules up to the await inside updateTimeRules;
\* setDoc serialises its argument when it is called
handleSaveTimeRules ==
    /\ Interactive
    /\ ~saving
    /\ savePc = "idle"
    /\ saving' = TRUE
    /\ savePc' = "sent"
    /\ Commit(timeRules, localTimeRules, localTimeRules, delClosure, heap)
    /\ saveData' = Content(localTimeRules, heap)
    /\ saveOwner' = TRUE
    /\ UNCHANGED <<formVars, edits, storeVars, resolverVars, loadPc, refreshPc, mounted, deletingTimeSlot,
                   delPc, delOwner>>
    /\ UNCHANGED productVars

\* the store applies the setDoc: the document is replaced as a whole
SetDocApplied ==
    /\ savePc = "sent"
    /\ savePc' = "written"
    /\ storeRules' = setDoc(storeRules, saveData)
    /\ UNCHANGED <<formVars, edits, storeSlots, snapshotPending, resolverVars, mapVars, loadPc, refreshPc, mounted,
                   saving, deletingTimeSlot, saveData, saveOwner, delPc, delOwner>>
    /\ UNCHANGED productVars

\* handleUpdateTimeRules after its await: setTimeRules(rules); then the finally
\* of handleSaveTimeRules: setSaving(false)
UpdateTimeRulesResolve ==
    /\ savePc = "written"
    /\ savePc' = "idle"
    /\ Commit(saveRules, localTimeRules, EmptyMap, delClosure, heap)
    /\ saveData' = EmptyMap
    /\ saveOwner' = FALSE
    /\ saving' = IF saveOwner THEN FALSE ELSE saving
    /\ UNCHANGED <<formVars, edits, storeVars, resolverVars, loadPc, refreshPc, mounted, deletingTimeSlot,
                   delPc, delOwner>>
    /\ UNCHANGED productVars

UpdateTimeRulesRejectKeepsSaving ==
    /\ savePc = "sent"
    /\ savePc' = "idle"
    /\ Commit(timeRules, localTimeRules, EmptyMap, delClosure, heap)
    /\ saveData' = EmptyMap
    /\ saveOwner' = FALSE
    /\ UNCHANGED <<formVars, edits, storeVars, resolverVars, loadPc, refreshPc, mounted, deletingTimeSlot,
                   delPc, delOwner, saving>>
    /\ UNCHANGED productVars

\* the setDoc rejects: both catch blocks log, timeRules is not set, setSaving(false)
UpdateTimeRulesReject ==
    /\ savePc = "sent"
    /\ savePc' = "idle"
    /\ Commit(timeRules, localTimeRules, EmptyMap, delClosure, heap)
    /\ saveData' = EmptyMap
    /\ saveOwner' = FALSE
    /\ saving' = IF saveOwner THEN FALSE ELSE saving
    /\ UNCHANGED <<formVars, edits, storeVars, resolverVars, loadPc, refreshPc, mounted, deletingTimeSlot,
                   delPc, delOwner>>
    /\ UNCHANGED productVars

\* the delete button of a slot, confirmed: handleDeleteTimeSlot up to its await
handleDeleteTimeSlot(timeSlotId) ==
    /\ Interactive
    /\ ~formSubmitting
    /\ \E i \in 1..Len(timeSlots) : timeSlots[i].id = timeSlotId
    /\ deletingTimeSlot # <<timeSlotId>>
    /\ delPc[timeSlotId] = "idle"
    /\ deletingTimeSlot' = <<timeSlotId>>
    /\ delPc' = [delPc EXCEPT ![timeSlotId] = "sent"]
    /\ Commit(timeRules, localTimeRules, saveRules,
              [delClosure EXCEPT ![timeSlotId] = localTimeRules], heap)
    /\ delOwner' = [delOwner EXCEPT ![timeSlotId] = TRUE]
    /\ UNCHANGED <<formVars, edits, storeVars, resolverVars, loadPc, refreshPc, mounted, saving, savePc,
                   saveData, saveOwner>>
    /\ UNCHANGED productVars

\* the store applies FirebaseService.delete("timeSlots", id)
DeleteDocApplied(timeSlotId) ==
    /\ delPc[timeSlotId] = "sent"
    /\ delPc' = [delPc EXCEPT ![timeSlotId] = "deleted"]
    /\ storeSlots' = RemoveSlotDoc(storeSlots, timeSlotId)
    /\ snapshotPending' = (snapshotPending \/ storeSlots' # storeSlots)
    /\ UNCHANGED <<formVars, edits, storeRules, resolverVars, mapVars, loadPc, refreshPc, mounted, saving,
                   deletingTimeSlot, savePc, saveData, saveOwner, delOwner>>
    /\ UNCHANGED productVars

removeSlotClearsAll(rules, timeSlotId) == EmptyMap

\* the rule map handleDeleteTimeSlot sets after its await: a copy of the
\* localTimeRules of its closure, without the slot's key
removeSlot(rules, timeSlotId) == Del(rules, timeSlotId)

\* handleDeleteTimeSlot after its await: the cleanup, then the finally
DeleteTimeSlotResolve(timeSlotId) ==
    /\ delPc[timeSlotId] = "deleted"
    /\ delPc' = [delPc EXCEPT ![timeSlotId] = "idle"]
    /\ Commit(timeRules,
              IF delOwner[timeSlotId] THEN removeSlot(delClosure[timeSlotId], timeSlotId)
                                      ELSE localTimeRules,
              saveRules, [delClosure EXCEPT ![timeSlotId] = EmptyMap], heap)
    /\ deletingTimeSlot' = IF delOwner[timeSlotId] THEN <<>> ELSE deletingTimeSlot
    /\ delOwner' = [delOwner EXCEPT ![timeSlotId] = FALSE]
    /\ UNCHANGED <<formVars, edits, storeVars, resolverVars, loadPc, refreshPc, mounted, saving, savePc,
                   saveData, saveOwner>>
    /\ UNCHANGED productVars

DeleteTimeSlotRejectCleansUp(timeSlotId) ==
    /\ delPc[timeSlotId] = "sent"
    /\ delPc' = [delPc EXCEPT ![timeSlotId] = "idle"]
    /\ Commit(timeRules,
              IF delOwner[timeSlotId] THEN removeSlot(delClosure[timeSlotId], timeSlotId)
                                      ELSE localTimeRules,
              saveRules, [delClosure EXCEPT ![timeSlotId] = EmptyMap], heap)
    /\ deletingTimeSlot' = IF delOwner[timeSlotId] THEN <<>> ELSE deletingTimeSlot
    /\ delOwner' = [delOwner EXCEPT ![timeSlotId] = FALSE]
    /\ UNCHANGED <<formVars, edits, storeVars, resolverVars, loadPc, refreshPc, mounted, saving, savePc,
                   saveData, saveOwner>>
    /\ UNCHANGED productVars

\* the delete rejects: the catch logs, the finally clears deletingTimeSlot
DeleteTimeSlotReject(timeSlotId) ==
    /\ delPc[timeSlotId] = "sent"
    /\ delPc' = [delPc EXCEPT ![timeSlotId] = "idle"]
    /\ Commit(timeRules, localTimeRules, saveRules,
              [delClosure EXCEPT ![timeSlotId] = EmptyMap], heap)
    /\ deletingTimeSlot' = IF delOwner[timeSlotId] THEN <<>> ELSE deletingTimeSlot
    /\ delOwner' = [delOwner EXCEPT ![timeSlotId] = FALSE]
    /\ UNCHANGED <<formVars, edits, storeVars, resolverVars, loadPc, refreshPc, mounted, saving, savePc,
                   saveData, saveOwner>>
    /\ UNCHANGED productVars

\* another client deletes a slot document
RemoteDeleteTimeSlot(timeSlotId) ==
    /\ \E i \in 1..Len(storeSlots) : storeSlots[i].id = timeSlotId
    /\ storeSlots' = RemoveSlotDoc(storeSlots, timeSlotId)
    /\ snapshotPending' = TRUE
    /\ UNCHANGED <<formVars, storeRules, resolverVars, ruleVars>>
    /\ UNCHANGED productVars

\* another client saves its rule map
RemoteUpdateTimeRules(data) ==
    /\ storeRules # StoredDocument(data)
    /\ storeRules' = setDoc(storeRules, data)
    /\ UNCHANGED <<formVars, storeSlots, snapshotPending, resolverVars, ruleVars>>
    /\ UNCHANGED productVars

(***************************************************************************)
(* The time-slot dialog                                                    *)
(***************************************************************************)
\* resetTimeSlotForm, in a render whose timeSlots has the given length
resetTimeSlotForm(length) == [InitialForm EXCEPT !.order = length]

\* what is outside the dialog's own state
dialogFrame == <<storeVars, resolverVars, ruleVars>>

\* "Add Time Slot": resetTimeSlotForm, and the trigger opens the dialog
OpenCreateDialog ==
    /\ Interactive
    /\ ~showTimeSlotDialog
    /\ timeSlotForm' = resetTimeSlotForm(Len(timeSlots))
    /\ editingTimeSlot' = <<>>
    /\ showTimeSlotDialog' = TRUE
    /\ formInputs' = formInputs + 1
    /\ UNCHANGED <<dialogFrame, alerts, formSubmitting, submitPc, submitCall, submitOwner>>
    /\ UNCHANGED productVars

\* the edit button of the n-th listed slot
handleEditTimeSlot(n) ==
    /\ Interactive
    /\ ~showTimeSlotDialog
    /\ n \in 1..Len(timeSlots)
    /\ ~formSubmitting
    /\ deletingTimeSlot # <<timeSlots[n].id>>
    /\ timeSlotForm' = [name |-> timeSlots[n].name,
                        startTime12 |-> convertTo12Hour(timeSlots[n].startTime),
                        endTime12 |-> convertTo12Hour(timeSlots[n].endTime),
                        isActive |-> timeSlots[n].isActive,
                        order |-> timeSlots[n].order]
    /\ editingTimeSlot' = <<timeSlots[n]>>
    /\ showTimeSlotDialog' = TRUE
    /\ formInputs' = formInputs + 1
    /\ UNCHANGED <<dialogFrame, alerts, formSubmitting, submitPc, submitCall, submitOwner>>
    /\ UNCHANGED productVars

\* a Quick Templates button of the create dialog
handleTemplateSelect(template) ==
    /\ Interactive
    /\ showTimeSlotDialog
    /\ editingTimeSlot = <<>>
    /\ ~formSubmitting
    /\ timeSlotForm' = [timeSlotForm EXCEPT !.name = template.value,
                                            !.startTime12 = convertTo12Hour(template.defaultStart),
                                            !.endTime12 = convertTo12Hour(template.defaultEnd)]
    /\ formInputs' = formInputs + 1
    /\ UNCHANGED <<dialogFrame, alerts, editingTimeSlot, showTimeSlotDialog, formSubmitting,
                   submitPc, submitCall, submitOwner>>
    /\ UNCHANGED productVars

\* typing in the Name input
ChangeName(value) ==
    /\ Interactive
    /\ showTimeSlotDialog
    /\ ~formSubmitting
    /\ timeSlotForm.name # value
    /\ timeSlotForm' = [timeSlotForm EXCEPT !.name = value]
    /\ formInputs' = formInputs + 1
    /\ UNCHANGED <<dialogFrame, alerts, editingTimeSlot, showTimeSlotDialog,
                   formSubmitting, submitPc, submitCall, submitOwner>>
    /\ UNCHANGED productVars

\* a choice in the Start Time menu
SelectStartTime(value) ==
    /\ Interactive
    /\ showTimeSlotDialog
    /\ ~formSubmitting
    /\ timeSlotForm' = [timeSlotForm EXCEPT !.startTime12 = value]
    /\ formInputs' = formInputs + 1
    /\ UNCHANGED <<dialogFrame, alerts, editingTimeSlot, showTimeSlotDialog,
                   formSubmitting, submitPc, submitCall, submitOwner>>
    /\ UNCHANGED productVars

\* a choice in the End Time menu
SelectEndTime(value) ==
    /\ Interactive
    /\ showTimeSlotDialog
    /\ ~formSubmitting
    /\ timeSlotForm' = [timeSlotForm EXCEPT !.endTime12 = value]
    /\ formInputs' = formInputs + 1
    /\ UNCHANGED <<dialogFrame, alerts, editingTimeSlot, showTimeSlotDialog,
                   formSubmitting, submitPc, submitCall, submitOwner>>
    /\ UNCHANGED productVars

\* Cancel, Escape or a click outside: setShowTimeSlotDialog(false)
CloseDialog ==
    /\ Interactive
    /\ showTimeSlotDialog
    /\ showTimeSlotDialog' = FALSE
    /\ UNCHANGED <<dialogFrame, alerts, formInputs, timeSlotForm, editingTimeSlot, formSubmitting,
                   submitPc, submitCall, submitOwner>>
    /\ UNCHANGED productVars

\* timeSlotData of handleTimeSlotSubmit
timeSlotData(form) ==
    [name |-> form.name,
     startTime |-> convertTo24Hour(form.startTime12),
     endTime |-> convertTo24Hour(form.endTime12),
     isActive |-> form.isActive,
     order |-> form.order]

alertAndCloseDialog ==
    /\ alerts' = alerts + 1
    /\ formInputs' = formInputs + 1
    /\ showTimeSlotDialog' = FALSE
    /\ UNCHANGED <<dialogFrame, timeSlotForm, editingTimeSlot, formSubmitting,
                   submitPc, submitCall, submitOwner>>
    /\ UNCHANGED productVars

\* the early return of handleTimeSlotSubmit: alert("Please select both start
\* and end times"); return
alertAndReturn ==
    /\ alerts' = alerts + 1
    /\ formInputs' = formInputs + 1
    /\ UNCHANGED <<dialogFrame, timeSlotForm, editingTimeSlot, showTimeSlotDialog, formSubmitting,
                   submitPc, submitCall, submitOwner>>
    /\ UNCHANGED productVars

\* the submit button: handleTimeSlotSubmit up to its await.  The Name input
\* is required, so the form is not submitted without a name.
handleTimeSlotSubmit ==
    /\ Interactive
    /\ showTimeSlotDialog
    /\ ~formSubmitting
    /\ submitPc = "idle"
    /\ timeSlotForm.name # ""
    /\ IF timeSlotForm.startTime12 = <<>> \/ timeSlotForm.endTime12 = <<>>
       THEN alertAndReturn
       ELSE /\ formSubmitting' = TRUE
            /\ formInputs' = formInputs + 1
            /\ submitPc' = "sent"
            /\ submitCall' = << [id |-> IF editingTimeSlot = <<>> THEN <<>>
                                       ELSE <<editingTimeSlot[1].id>>,
                                data |-> timeSlotData(timeSlotForm),
                                length |-> Len(timeSlots)] >>
            /\ submitOwner' = TRUE
            /\ UNCHANGED <<dialogFrame, alerts, timeSlotForm, editingTimeSlot, showTimeSlotDialog>>
    /\ UNCHANGED productVars

\* the id addDoc gives a new document
NewSlotId(slots) ==
    SlotIdPool[CHOOSE i \in 1..Len(SlotIdPool) :
                  /\ \A n \in 1..Len(slots) : slots[n].id # SlotIdPool[i]
                  /\ \A j \in 1..(i - 1) : \E n \in 1..Len(slots) : slots[n].id = SlotIdPool[j]]

\* FirebaseService.create: the new document is the newest, so the first of the query
createSlotDoc(slots, data) ==
    << TimeSlot(NewSlotId(slots), data.name, data.startTime, data.endTime, data.isActive, data.order) >>
       \o slots

\* FirebaseService.update: the fields of data replace those of the document
updateSlotDoc(slots, id, data) ==
    [n \in 1..Len(slots) |->
        IF slots[n].id = id
        THEN TimeSlot(id, data.name, data.startTime, data.endTime, data.isActive, data.order)
        ELSE slots[n]]

\* the store applies the addDoc or the updateDoc (of a document that exists)
SubmitApplied ==
    /\ submitPc = "sent"
    /\ IF submitCall[1].id = <<>>
       THEN /\ \E i \in 1..Len(SlotIdPool) : \A n \in 1..Len(storeSlots) : storeSlots[n].id # SlotIdPool[i]
            /\ storeSlots' = createSlotDoc(storeSlots, submitCall[1].data)
       ELSE /\ \E n \in 1..Len(storeSlots) : storeSlots[n].id = submitCall[1].id[1]
            /\ storeSlots' = updateSlotDoc(storeSlots, submitCall[1].id[1], submitCall[1].data)
    /\ submitPc' = "applied"
    /\ snapshotPending' = TRUE
    /\ UNCHANGED <<storeRules, resolverVars, ruleVars, formInputs, alerts, timeSlotForm,
                   editingTimeSlot, showTimeSlotDialog, formSubmitting, submitCall, submitOwner>>
    /\ UNCHANGED productVars

\* handleTimeSlotSubmit after its await: resetTimeSlotForm of its closure, the
\* dialog is closed, then the finally
SubmitResolve ==
    /\ submitPc = "applied"
    /\ submitPc' = "idle"
    /\ submitCall' = <<>>
    /\ submitOwner' = FALSE
    /\ IF submitOwner
       THEN /\ timeSlotForm' = resetTimeSlotForm(submitCall[1].length)
            /\ editingTimeSlot' = <<>>
            /\ showTimeSlotDialog' = FALSE
            /\ formSubmitting' = FALSE
       ELSE UNCHANGED <<timeSlotForm, editingTimeSlot, showTimeSlotDialog, formSubmitting>>
    /\ UNCHANGED <<dialogFrame, alerts, formInputs>>
    /\ UNCHANGED productVars

\* the call rejects: the catch logs, the finally clears formSubmitting
SubmitReject ==
    /\ submitPc = "sent"
    /\ submitPc' = "idle"
    /\ submitCall' = <<>>
    /\ submitOwner' = FALSE
    /\ formSubmitting' = (IF submitOwner THEN FALSE ELSE formSubmitting)
    /\ UNCHANGED <<dialogFrame, alerts, formInputs, timeSlotForm, editingTimeSlot, showTimeSlotDialog>>
    /\ UNCHANGED productVars

\* what the user types into the Name input: a name of their own, or nothing
TypedNames == {"brunch", ""}

(***************************************************************************)
(* ProductsManagement: product writes and the vendors' product counts      *)
(***************************************************************************)
\* the products listener delivers the collection: setProducts(productsData)
ProductsSnapshot ==
    /\ productsPending
    /\ products' = storeProducts
    /\ productsPending' = FALSE
    /\ UNCHANGED <<settingsVars, storeProducts, storeVendorTotals, onUpdateVendorPassed, productCall>>

\* the vendor selections the product form submits
VendorChoices == {<<"v1">>, <<"v2">>, <<"v1", "v2">>}

VendorIdsOf(product) == {product.vendors[k] : k \in 1..Len(product.vendors)}

\* handleDelete on the n-th listed product, confirmed: up to `await onDeleteProduct`;
\* the handler keeps the products array of the render that created it
handleDelete(n) ==
    /\ productCall = <<>>
    /\ n \in 1..Len(products)
    /\ productCall' = << [kind |-> "delete", id |-> products[n].id, vendors |-> <<>>,
                          affected |-> VendorIdsOf(products[n]),
                          closure |-> products, pc |-> "sent"] >>
    /\ UNCHANGED <<settingsVars, storeProducts, storeVendorTotals, productsPending, products,
                   onUpdateVendorPassed>>

\* handleFormSubmit up to `await onUpdateProduct` (editing the n-th listed
\* product) or `await onCreateProduct` (n = 0, editingProduct is null)
handleFormSubmit(n, vendorIds) ==
    /\ productCall = <<>>
    /\ n \in 0..Len(products)
    /\ productCall' = << [kind |-> IF n = 0 THEN "create" ELSE "update",
                          id |-> IF n = 0 THEN "" ELSE products[n].id,
                          vendors |-> vendorIds,
                          affected |-> {vendorIds[k] : k \in 1..Len(vendorIds)}
                                          \cup (IF n = 0 THEN {} ELSE VendorIdsOf(products[n])),
                          closure |-> products, pc |-> "sent"] >>
    /\ UNCHANGED <<settingsVars, storeProducts, storeVendorTotals, productsPending, products,
                   onUpdateVendorPassed>>

\* the id addDoc gives a new product document
NewProductId(list) ==
    ProductIdPool[CHOOSE i \in 1..Len(ProductIdPool) :
                     /\ \A n \in 1..Len(list) : list[n].id # ProductIdPool[i]
                     /\ \A j \in 1..(i - 1) : \E n \in 1..Len(list) : list[n].id = ProductIdPool[j]]

\* FirebaseService.create / update / delete on collection "products"
writeProductDoc(list, call) ==
    IF call.kind = "create" THEN <<Product(NewProductId(list), call.vendors)>> \o list
    ELSE IF call.kind = "update"
         THEN [n \in 1..Len(list) |->
                  IF list[n].id = call.id THEN Product(call.id, call.vendors) ELSE list[n]]
         ELSE SelectSeq(list, LAMBDA p : p.id # call.id)

\* the store applies the write and its listener has a new snapshot
ProductWriteApplied ==
    /\ productCall # <<>>
    /\ productCall[1].pc = "sent"
    /\ storeProducts' = writeProductDoc(storeProducts, productCall[1])
    /\ productsPending' = TRUE
    /\ productCall' = << [productCall[1] EXCEPT !.pc = "applied"] >>
    /\ UNCHANGED <<settingsVars, storeVendorTotals, products, onUpdateVendorPassed>>

\* the write is rejected: the handler's catch shows a toast, no count is updated
ProductWriteReject ==
    /\ productCall # <<>>
    /\ productCall[1].pc = "sent"
    /\ productCall' = <<>>
    /\ UNCHANGED <<settingsVars, storeProducts, storeVendorTotals, productsPending, products,
                   onUpdateVendorPassed>>

\* the await returns and updateVendorProductCounts(affectedVendorIds) runs to
\* its end: the counts come from the products array of the handler's render;
\* without the prop, calling onUpdateVendor throws and the catch only logs
updateVendorProductCounts ==
    /\ productCall # <<>>
    /\ productCall[1].pc = "applied"
    /\ storeVendorTotals' =
          IF onUpdateVendorPassed
          THEN [v \in VendorIds |->
                   IF v \in productCall[1].affected
                   THEN calculateVendorProductCounts(productCall[1].closure)[v]
                   ELSE storeVendorTotals[v]]
          ELSE storeVendorTotals
    /\ productCall' = <<>>
    /\ UNCHANGED <<settingsVars, storeProducts, productsPending, products, onUpdateVendorPassed>>

ProductNext ==
    \/ ProductsSnapshot
    \/ \E n \in 1..Len(products) : handleDelete(n)
    \/ \E n \in 0..Len(products), vendorIds \in VendorChoices :
          (n = 0 => Len(storeProducts) < Len(ProductIdPool)) /\ handleFormSubmit(n, vendorIds)
    \/ ProductWriteApplied
    \/ ProductWriteReject
    \/ updateVendorProductCounts

Next ==
    \/ TimeSlotsSnapshot
    \/ LoadTimeRulesResolve
    \/ LoadTimeRulesReject
    \/ handleRefreshData
    \/ RefreshResolve
    \/ RefreshReject
    \/ MountSettings
    \/ UnmountSettings
    \/ \E s \in SlotIds, i \in 1..Len(categories), checked \in BOOLEAN :
          edits < MaxToggles /\ ToggleCategory(s, categories[i].id, checked)
    \/ handleSaveTimeRules
    \/ SetDocApplied
    \/ UpdateTimeRulesResolve
    \/ UpdateTimeRulesReject
    \/ \E s \in SlotIds : handleDeleteTimeSlot(s)
    \/ \E s \in SlotIds : DeleteDocApplied(s)
    \/ \E s \in SlotIds : DeleteTimeSlotResolve(s)
    \/ \E s \in SlotIds : DeleteTimeSlotReject(s)
    \/ \E s \in SlotIds : RemoteDeleteTimeSlot(s)
    \/ \E d \in StoredRuleMaps : RemoteUpdateTimeRules(d)
    \/ formInputs < MaxDialogInputs /\ OpenCreateDialog
    \/ \E n \in 1..Len(timeSlots) : formInputs < MaxDialogInputs /\ handleEditTimeSlot(n)
    \/ \E i \in 1..Len(TIME_SLOT_TEMPLATES) :
          formInputs < MaxDialogInputs /\ handleTemplateSelect(TIME_SLOT_TEMPLATES[i])
    \/ \E k \in 1..Len(generateTimeOptions) :
          formInputs < MaxDialogInputs /\ SelectStartTime(generateTimeOptions[k])
    \/ \E k \in 1..Len(generateTimeOptions) :
          formInputs < MaxDialogInputs /\ SelectEndTime(generateTimeOptions[k])
    \/ CloseDialog
    \/ formInputs < MaxDialogInputs /\ handleTimeSlotSubmit
    \/ SubmitApplied
    \/ SubmitResolve
    \/ SubmitReject
    \/ \E value \in TypedNames : formInputs < MaxDialogInputs /\ ChangeName(value)
    \/ ProductNext

Spec == Init /\ [][Next]_vars

\* editing: loading, mounting, toggling and saving, no slot is deleted
EditNext ==
    \/ TimeSlotsSnapshot
    \/ LoadTimeRulesResolve
    \/ LoadTimeRulesReject
    \/ MountSettings
    \/ UnmountSettings
    \/ \E s \in SlotIds, i \in 1..Len(categories), checked \in BOOLEAN :
          edits < MaxToggles /\ ToggleCategory(s, categories[i].id, checked)
    \/ handleSaveTimeRules
    \/ SetDocApplied
    \/ UpdateTimeRulesResolve
    \/ UpdateTimeRulesReject

SpecEdit == Init /\ [][EditNext]_vars

\* deleting slots, here and from another client, between edits
DeleteNext ==
    \/ TimeSlotsSnapshot
    \/ LoadTimeRulesResolve
    \/ MountSettings
    \/ UnmountSettings
    \/ \E s \in SlotIds, i \in 1..Len(categories), checked \in BOOLEAN :
          edits < MaxDeleteToggles /\ ToggleCategory(s, categories[i].id, checked)
    \/ \E s \in SlotIds : handleDeleteTimeSlot(s)
    \/ \E s \in SlotIds : DeleteDocApplied(s)
    \/ \E s \in SlotIds : DeleteTimeSlotResolve(s)
    \/ \E s \in SlotIds : DeleteTimeSlotReject(s)
    \/ \E s \in SlotIds : RemoteDeleteTimeSlot(s)

\* the store when a deletion scenario starts: no rule document, or one with a
\* rule for every slot
DeleteInit ==
    /\ Init
    /\ storeRules.exists => (DOMAIN storeRules.data = SlotIds)

SpecDelete == DeleteInit /\ [][DeleteNext]_vars

\* deleting slots from a Settings that stays open, no other client
CleanupNext ==
    \/ TimeSlotsSnapshot
    \/ LoadTimeRulesResolve
    \/ MountSettings
    \/ \E s \in SlotIds, i \in 1..Len(categories), checked \in BOOLEAN :
          edits < MaxDeleteToggles /\ ToggleCategory(s, categories[i].id, checked)
    \/ \E s \in SlotIds : handleDeleteTimeSlot(s)
    \/ \E s \in SlotIds : DeleteDocApplied(s)
    \/ \E s \in SlotIds : DeleteTimeSlotResolve(s)
    \/ \E s \in SlotIds : DeleteTimeSlotReject(s)

SpecCleanup == DeleteInit /\ [][CleanupNext]_vars

\* loading: the mount effect's load, refreshes and writes of another client,
\* with Settings opened and closed in between; nothing is edited here
LoadNext ==
    \/ TimeSlotsSnapshot
    \/ LoadTimeRulesResolve
    \/ LoadTimeRulesReject
    \/ handleRefreshData
    \/ RefreshResolve
    \/ RefreshReject
    \/ MountSettings
    \/ UnmountSettings
    \/ \E d \in StoredRuleMaps : RemoteUpdateTimeRules(d)

SpecLoad == Init /\ [][LoadNext]_vars

\* saving against another client: one Settings that stays open edits and
\* saves while another client writes the rule document
RaceNext ==
    \/ TimeSlotsSnapshot
    \/ LoadTimeRulesResolve
    \/ MountSettings
    \/ \E s \in SlotIds, i \in 1..Len(categories), checked \in BOOLEAN :
          edits < MaxRaceToggles /\ ToggleCategory(s, categories[i].id, checked)
    \/ handleSaveTimeRules
    \/ SetDocApplied
    \/ UpdateTimeRulesResolve
    \/ UpdateTimeRulesReject
    \/ \E d \in StoredRuleMaps : RemoteUpdateTimeRules(d)

SpecRace == Init /\ [][RaceNext]_vars

\* the dialog: creating slots from templates and menu choices, editing slots
\* the menu entries the user picks from in the dialog specification: 12:00 AM,
\* 12:00 PM, 1:30 PM, 9:00 AM, 10:30 AM and 11:30 PM, by their place in the menu
MenuSamples ==
    {k \in 1..Len(generateTimeOptions) :
        generateTimeOptions[k] \in
           { MenuEntry(12, 0, AM), MenuEntry(12, 0, PM), MenuEntry(1, 30, PM),
             MenuEntry(9, 0, AM), MenuEntry(10, 30, AM), MenuEntry(11, 30, PM) }}

FormNext ==
    \/ TimeSlotsSnapshot
    \/ MountSettings
    \/ formInputs < MaxDialogInputs /\ OpenCreateDialog
    \/ \E n \in 1..Len(timeSlots) : formInputs < MaxDialogInputs /\ handleEditTimeSlot(n)
    \/ \E i \in 1..Len(TIME_SLOT_TEMPLATES) :
          formInputs < MaxDialogInputs /\ handleTemplateSelect(TIME_SLOT_TEMPLATES[i])
    \/ \E k \in MenuSamples :
          formInputs < MaxDialogInputs /\ SelectStartTime(generateTimeOptions[k])
    \/ \E k \in MenuSamples :
          formInputs < MaxDialogInputs /\ SelectEndTime(generateTimeOptions[k])
    \/ CloseDialog
    \/ formInputs < MaxDialogInputs /\ handleTimeSlotSubmit
    \/ SubmitApplied
    \/ SubmitResolve
    \/ SubmitReject

\* the panel opens on the two template slots; the rule document plays no part
FormInit == Init /\ storeRules = NoDocument

SpecForm == FormInit /\ [][FormNext]_vars

\* "HH" and "MM" of a stored time
TwoDigits(n) == <<Digits[(n \div 10) + 1], Digits[(n % 10) + 1]>>

\* minutes of the stored times the conversions are run on
MinuteSamples == {0, 15, 30, 59}

ClockTimes ==
    {TwoDigits(h) \o <<":">> \o TwoDigits(m) : h \in 0..(HoursPerDay - 1), m \in MinuteSamples}

\* one stored slot whose startTime and endTime are the same valid time, or
\* are missing
ConvertInit ==
    /\ \E t \in ClockTimes \cup {<<>>}, u \in ClockTimes \cup {<<>>} :
          /\ (t = u \/ t = <<>> \/ u = <<>>)
          /\ (u = <<>> => t \in {<<>>, TIME_SLOT_TEMPLATES[1].defaultStart})
          /\ (t = <<>> => u \in {<<>>, TIME_SLOT_TEMPLATES[1].defaultEnd})
          /\ storeSlots = <<TimeSlot(SlotIdPool[1], TIME_SLOT_TEMPLATES[1].value, t, u, TRUE, 0)>>
    /\ storeRules = NoDocument
    /\ snapshotPending = TRUE
    /\ timeSlots = <<>>
    /\ currentTime = 0
    /\ currentSlot = <<>>
    /\ rendered = FALSE
    /\ PanelInit

\* a stored slot is opened for editing and sent back as it is shown
ConvertNext ==
    \/ TimeSlotsSnapshot
    \/ MountSettings
    \/ \E n \in 1..Len(timeSlots) : formInputs < MaxDialogInputs /\ handleEditTimeSlot(n)
    \/ CloseDialog
    \/ formInputs < MaxDialogInputs /\ handleTimeSlotSubmit
    \/ SubmitApplied
    \/ SubmitResolve
    \/ SubmitReject

SpecConvert == ConvertInit /\ [][ConvertNext]_vars

\* validation: a slot is created by hand in a Settings that stays open, its
\* name typed and its times chosen from the menu, or left out
ValidateNext ==
    \/ TimeSlotsSnapshot
    \/ MountSettings
    \/ formInputs < MaxDialogInputs /\ OpenCreateDialog
    \/ \E n \in 1..Len(timeSlots) : formInputs < MaxDialogInputs /\ handleEditTimeSlot(n)
    \/ \E value \in TypedNames : formInputs < MaxDialogInputs /\ ChangeName(value)
    \/ \E k \in MenuSamples :
          formInputs < MaxDialogInputs /\ SelectStartTime(generateTimeOptions[k])
    \/ \E k \in MenuSamples :
          formInputs < MaxDialogInputs /\ SelectEndTime(generateTimeOptions[k])
    \/ CloseDialog
    \/ formInputs < MaxDialogInputs /\ handleTimeSlotSubmit
    \/ SubmitApplied
    \/ SubmitResolve
    \/ SubmitReject

SpecValidate == FormInit /\ [][ValidateNext]_vars

\* ordering: one Settings that stays open fills the allow-list of the only
\* slot from an empty rule set, then the slot is deleted
OrderNext ==
    \/ TimeSlotsSnapshot
    \/ LoadTimeRulesResolve
    \/ MountSettings
    \/ \E s \in SlotIds, i \in 1..Len(categories), checked \in BOOLEAN :
          edits < MaxOrderToggles /\ ToggleCategory(s, categories[i].id, checked)
    \/ \E s \in SlotIds : handleDeleteTimeSlot(s)
    \/ \E s \in SlotIds : DeleteDocApplied(s)
    \/ \E s \in SlotIds : DeleteTimeSlotResolve(s)

\* the store holds one slot and an empty rule map
OrderInit ==
    /\ storeSlots = <<InitialSlot(1)>>
    /\ storeRules = StoredDocument(EmptyMap)
    /\ snapshotPending = TRUE
    /\ timeSlots = <<>>
    /\ currentTime = 0
    /\ currentSlot = <<>>
    /\ rendered = FALSE
    /\ PanelInit

SpecOrder == OrderInit /\ [][OrderNext]_vars

\* the minutes of a day, as getCurrentTimeSlot computes currentTime
DayMinutes == 0..(HoursPerDay * MinutesPerHour - 1)

\* the times of day of the template renders: the half hours of the time menu,
\* and the minutes before and after the start of a template window
TemplateNowSamples ==
    {m \in DayMinutes :
        \/ m % MenuMinuteStep = 0
        \/ \E i \in 1..Len(TIME_SLOT_TEMPLATES) :
              (m - StartMinutes(InitialSlot(i))) \in {-1, 1}}

\* the lists that hold one slot per template, all active, in any order of delivery
TemplateSlotLists ==
    LET n == Len(TIME_SLOT_TEMPLATES)
    IN  { [i \in 1..n |-> InitialSlot(p[i])] :
            p \in {q \in [1..n -> 1..n] : \A i, j \in 1..n : q[i] = q[j] => i = j} }

\* the store holds the four template slots and the listener has delivered them
TemplateInit ==
    /\ timeSlots \in TemplateSlotLists
    /\ currentTime = 0
    /\ currentSlot = <<>>
    /\ rendered = FALSE
    /\ storeSlots = timeSlots
    /\ storeRules = NoDocument
    /\ snapshotPending = FALSE
    /\ PanelInit

TemplateNext == \E now \in TemplateNowSamples : Render(now)

SpecTemplates == TemplateInit /\ [][TemplateNext]_vars

\* saving: Settings is opened and closed, rules are edited and saved, while
\* the load of the mount effect is still awaited
SaveNext ==
    \/ TimeSlotsSnapshot
    \/ MountSettings
    \/ UnmountSettings
    \/ \E s \in SlotIds, i \in 1..Len(categories), checked \in BOOLEAN :
          edits < MaxRaceToggles /\ ToggleCategory(s, categories[i].id, checked)
    \/ handleSaveTimeRules
    \/ SetDocApplied
    \/ UpdateTimeRulesResolve
    \/ UpdateTimeRulesReject

\* the store answers: a setDoc that has been called is applied or rejected,
\* and the promise of an applied one resolves
SpecSave ==
    /\ FormInit
    /\ [][SaveNext]_vars
    /\ WF_vars(SetDocApplied)
    /\ WF_vars(UpdateTimeRulesResolve)

\* the products page alone; its parent may or may not hand it onUpdateVendor
ProductInit ==
    /\ storeSlots = InitialStoreSlots
    /\ storeRules = NoDocument
    /\ snapshotPending = TRUE
    /\ timeSlots = <<>>
    /\ currentTime = 0
    /\ currentSlot = <<>>
    /\ rendered = FALSE
    /\ SettingsPanelInit
    /\ ProductsInit
    /\ onUpdateVendorPassed \in BOOLEAN

SpecProducts == ProductInit /\ [][ProductNext]_vars

(***************************************************************************)
(* Claims about the resolver                                               *)
(***************************************************************************)
\* the window of a slot as the specification states it, on minutes of the day
WindowContains(slot, now) ==
    LET startMinutes == StartMinutes(slot)
        endMinutes == EndMinutes(slot)
    IN  IF endMinutes <= startMinutes
        THEN now >= startMinutes \/ now <= endMinutes
        ELSE startMinutes <= now /\ now <= endMinutes

IsWraparound(slot) == EndMinutes(slot) <= StartMinutes(slot)

\* position in slots of the slot a render returned (0 when it returned none)
ReturnedIndex(slots, result) ==
    IF result = <<>> THEN 0
    ELSE CHOOSE i \in 1..Len(slots) : slots[i] = result[1]

\* C1: a render never returns a slot whose isActive is false, and when some
\* active slot's window contains the time it returns a slot, whatever inactive
\* slots precede it in the list.
C1_InactiveSkipped ==
    [][ /\ currentSlot' # <<>> => currentSlot'[1].isActive
        /\ (\E i \in 1..Len(timeSlots) :
                timeSlots[i].isActive /\ WindowContains(timeSlots[i], currentTime'))
            => currentSlot' # <<>> ]_vars

C1_Witness ==
    /\ rendered
    /\ \E i, j \in 1..Len(timeSlots) :
          /\ i < j
          /\ ~timeSlots[i].isActive
          /\ WindowContains(timeSlots[i], currentTime)
          /\ timeSlots[j].isActive
          /\ currentSlot = <<timeSlots[j]>>

\* C2: an active wraparound slot (end <= start) is matched exactly at the times
\* now >= startMinutes or now <= endMinutes: at such a time the render returns it
\* or a slot before it, at any other time the render does not return it.
C2_WraparoundWindow ==
    [][ \A i \in 1..Len(timeSlots) :
          (timeSlots[i].isActive /\ IsWraparound(timeSlots[i])) =>
            LET now == currentTime'
                inside == now >= StartMinutes(timeSlots[i]) \/ now <= EndMinutes(timeSlots[i])
                k == ReturnedIndex(timeSlots, currentSlot')
            IN  /\ inside => (k >= 1 /\ k <= i)
                /\ ~inside => k # i ]_vars

C2_Witness ==
    /\ rendered
    /\ currentTime = 120
    /\ currentSlot # <<>>
    /\ currentSlot[1].startTime = <<"2","2",":","0","0">>
    /\ currentSlot[1].endTime = <<"0","6",":","0","0">>

\* C3: an active slot with startMinutes < endMinutes is matched if and only if
\* startMinutes <= now <= endMinutes, both boundary minutes included.
C3_SameDayWindow ==
    [][ \A i \in 1..Len(timeSlots) :
          (timeSlots[i].isActive /\ ~IsWraparound(timeSlots[i])) =>
            LET now == currentTime'
                inside == StartMinutes(timeSlots[i]) <= now /\ now <= EndMinutes(timeSlots[i])
                k == ReturnedIndex(timeSlots, currentSlot')
            IN  /\ inside => (k >= 1 /\ k <= i)
                /\ ~inside => k # i ]_vars

C3_Witness ==
    /\ rendered
    /\ currentSlot # <<>>
    /\ ~IsWraparound(currentSlot[1])
    /\ currentTime = EndMinutes(currentSlot[1])

\* C4: when several active slots' windows contain the time, the render returns
\* the one that is first in the slot list it was given.
C4_FirstMatchWins ==
    [][ \A i \in 1..Len(timeSlots) :
          ( /\ timeSlots[i].isActive /\ WindowContains(timeSlots[i], currentTime')
            /\ \A j \in 1..(i - 1) :
                  ~(timeSlots[j].isActive /\ WindowContains(timeSlots[j], currentTime')) )
          => currentSlot' = <<timeSlots[i]>> ]_vars

C4_Witness ==
    /\ rendered
    /\ currentTime = 720
    /\ Len(timeSlots) >= 2
    /\ timeSlots[1].isActive /\ timeSlots[2].isActive
    /\ timeSlots[1].startTime = <<"1","2",":","0","0">> /\ timeSlots[1].endTime = <<"1","8",":","0","0">>
    /\ timeSlots[2].startTime = <<"0","6",":","0","0">> /\ timeSlots[2].endTime = <<"1","2",":","0","0">>
    /\ currentSlot = <<timeSlots[1]>>

(***************************************************************************)
(* Claims about the toggle handler                                         *)
(***************************************************************************)
CategoryIds == {categories[i].id : i \in 1..Len(categories)}

\* the allow-list a rule map holds for a slot, empty when it has no entry
AllowList(m, h, timeSlotId) ==
    IF Has(m, timeSlotId) THEN h[m[timeSlotId]].allowedCategories ELSE <<>>

Occurrences(list, categoryId) == Cardinality({i \in 1..Len(list) : list[i].id = categoryId})

\* C5: after any sequence of toggles from duplicate-free rules, every
\* allow-list of the rule set holds each category id at most once, and
\* directly after a toggle with checked = TRUE the toggled category is in the
\* slot's allow-list exactly once.
C5_AtMostOnce ==
    [][ /\ \A s \in SlotIds, c \in CategoryIds :
              Occurrences(AllowList(localTimeRules', heap', s), c) <= 1
        /\ \A s \in SlotIds, c \in CategoryIds :
              ToggleCategory(s, c, TRUE) =>
                 Occurrences(AllowList(localTimeRules', heap', s), c) = 1 ]_vars

C5_Witness ==
    /\ mounted
    /\ edits = MaxToggles
    /\ \E s \in SlotIds, c \in CategoryIds :
          /\ storeRules.exists /\ Has(storeRules.data, s)
          /\ Occurrences(storeRules.data[s].allowedCategories, c) = 1
          /\ Occurrences(AllowList(localTimeRules, heap, s), c) = 1
          /\ Len(AllowList(localTimeRules, heap, s)) = 2

\* C6: after a toggle with checked = FALSE the category is not in the slot's
\* allow-list; when it was not selected before, the content of every
\* allow-list, in Settings and in AdminPanel, is as before, and
\* isCategorySelected is false before and after.
C6_UncheckRemoves ==
    [][ \A s \in SlotIds, c \in CategoryIds :
          ToggleCategory(s, c, FALSE) =>
             /\ ~isCategorySelected(localTimeRules', heap', s, c)
             /\ ~isCategorySelected(localTimeRules, heap, s, c) =>
                   \A k \in SlotIds :
                      /\ AllowList(localTimeRules', heap', k) = AllowList(localTimeRules, heap, k)
                      /\ AllowList(timeRules', heap', k) = AllowList(timeRules, heap, k) ]_vars

C6_Witness ==
    /\ mounted
    /\ edits > 0
    /\ \E s \in SlotIds, c \in CategoryIds :
          /\ storeRules.exists /\ Has(storeRules.data, s)
          /\ Occurrences(storeRules.data[s].allowedCategories, c) = 1
          /\ Has(localTimeRules, s)
          /\ ~isCategorySelected(localTimeRules, heap, s, c)

\* C7: for the rule set Settings holds, every slot, category and value of
\* checked, running the handler twice leaves the same rule set as running it once.
C7_Idempotent ==
    mounted =>
      \A s \in SlotIds, c \in CategoryIds, checked \in BOOLEAN :
         LET once == handleTimeRuleChange(localTimeRules, heap, timeSlots, s, c, checked)
             twice == handleTimeRuleChange(once.rules, once.heap, timeSlots, s, c, checked)
         IN  Content(twice.rules, twice.heap) = Content(once.rules, once.heap)

C7_Witness ==
    /\ mounted
    /\ edits > 0
    /\ \E s \in SlotIds, c \in CategoryIds :
          /\ \E i \in 1..Len(timeSlots) : timeSlots[i].id = s
          /\ Has(localTimeRules, s) /\ ~Has(timeRules, s)
          /\ isCategorySelected(localTimeRules, heap, s, c)
          /\ LET again == handleTimeRuleChange(localTimeRules, heap, timeSlots, s, c, TRUE)
             IN  Content(again.rules, again.heap) = Content(localTimeRules, heap)

\* C8: a toggle leaves the content of the rule set it was given, the previous
\* localTimeRules, and of AdminPanel's timeRules as it was.
C8_ToggleIsPure ==
    [][ \A s \in SlotIds, c \in CategoryIds, checked \in BOOLEAN :
          ToggleCategory(s, c, checked) =>
             /\ Content(timeRules', heap') = Content(timeRules, heap)
             /\ LET res == handleTimeRuleChange(localTimeRules, heap, timeSlots, s, c, checked)
                IN  Content(localTimeRules, res.heap) = Content(localTimeRules, heap) ]_vars

(***************************************************************************)
(* Claims about slot deletion                                              *)
(***************************************************************************)
SlotListIds(slots) == {slots[i].id : i \in 1..Len(slots)}

\* C9: when a deletion started from Settings has succeeded, the rule document
\* in the store has no entry for the deleted slot.
C9_DeletePersistsCascade ==
    [][ \A s \in SlotIds :
          DeleteTimeSlotResolve(s) => ~Has(storeRules'.data, s) ]_vars

\* C10: when no deletion is in flight and the listener has delivered the
\* collection, every slot id keyed in timeRules and in a mounted Settings'
\* localTimeRules is the id of a slot of timeSlots.
C10_NoDanglingRule ==
    ((\A s \in SlotIds : delPc[s] = "idle") /\ ~snapshotPending) =>
       /\ (DOMAIN timeRules) \cap SlotIds \subseteq SlotListIds(timeSlots)
       /\ mounted => (DOMAIN localTimeRules) \cap SlotIds \subseteq SlotListIds(timeSlots)

\* C11: the cleanup of a succeeded deletion sets a rule set that lacks the
\* deleted slot's key and holds every other entry of the rule set it started
\* from with the same content; when that rule set has no entry for the slot,
\* the rule set it sets has the same content.
C11_RemoveOnlyThatSlot ==
    [][ \A s \in SlotIds :
          (DeleteTimeSlotResolve(s) /\ delOwner[s]) =>
             LET before == Content(delClosure[s], heap)
                 after == Content(localTimeRules', heap')
             IN  /\ DOMAIN after = (DOMAIN before) \ {s}
                 /\ \A k \in DOMAIN after : after[k] = before[k]
                 /\ ~Has(delClosure[s], s) => after = before ]_vars

C11_Witness ==
    /\ mounted
    /\ edits = 0
    /\ \A s \in SlotIds : delPc[s] = "idle"
    /\ \E s \in SlotIds, k \in SlotIds :
          /\ s # k
          /\ Has(timeRules, s) /\ ~Has(localTimeRules, s)
          /\ Has(localTimeRules, k)
          /\ Content(localTimeRules, heap)[k] = Content(timeRules, heap)[k]

\* C12: a toggle for a slot without a rule entry leaves an entry made of the
\* slot's name, startTime, endTime and isActive as timeSlots has them, whose
\* allow-list is the empty list with the toggle applied; and a slot's key
\* enters localTimeRules only by a toggle for that slot or, at a mount, from
\* the timeRules the panel loaded.
C12_LazyEntry ==
    [][ /\ \A s \in SlotIds, i \in 1..Len(categories), checked \in BOOLEAN :
              (~Has(localTimeRules, s) /\ ToggleCategory(s, categories[i].id, checked)) =>
                 /\ Has(localTimeRules', s)
                 /\ Content(localTimeRules', heap')[s] =
                       RuleOf(FindById(timeSlots, s)[1],
                              IF checked THEN <<CategoryRef(i)>> ELSE <<>>)
        /\ \A s \in SlotIds :
              (Has(localTimeRules', s) /\ ~Has(localTimeRules, s)) =>
                 \/ \E c \in CategoryIds, checked \in BOOLEAN : ToggleCategory(s, c, checked)
                 \/ MountSettings /\ Has(timeRules, s) ]_vars

C12_Witness ==
    /\ mounted
    /\ edits = 1
    /\ \E s \in SlotIds, i \in 1..Len(categories), n \in 1..Len(timeSlots) :
          /\ timeSlots[n].id = s
          /\ ~Has(timeRules, s)
          /\ Has(localTimeRules, s)
          /\ heap[localTimeRules[s]] = RuleOf(timeSlots[n], <<CategoryRef(i)>>)

(***************************************************************************)
(* Claims about saving and loading the rule map                            *)
(***************************************************************************)
\* C13: after a save that failed, the Settings that started it is back at the
\* rule set it had before its edits.  Settings keeps no mark for unsaved
\* rules, so this is what the claim leaves; an entry that timeRules does not
\* key was created by an edit since the mount or the last acknowledged save,
\* and the formula says that no such entry is left.
C13_FailedSaveRestores ==
    [][ (UpdateTimeRulesReject /\ saveOwner) =>
           \A s \in SlotIds : Has(localTimeRules', s) => Has(timeRules', s) ]_vars

\* C14: the content of timeRules is what the last load read from the store or
\* what the last acknowledged save wrote: a load sets it to the document (or
\* the fallback), an acknowledgement to the data that was written, and no
\* other step, a toggle or a failed save among them, changes it.
C14_TimeRulesFollowStore ==
    [][ /\ LoadTimeRulesResolve =>
              Content(timeRules', heap') =
                 IF storeRules.exists THEN storeRules.data ELSE DefaultTimeRules
        /\ UpdateTimeRulesResolve => Content(timeRules', heap') = saveData
        /\ Content(timeRules', heap') # Content(timeRules, heap) =>
              LoadTimeRulesResolve \/ UpdateTimeRulesResolve ]_vars

\* C15: when a rule map arrives from the store while Settings is mounted, by
\* the load of the mount effect or by a refresh, the rule set Settings shows
\* and would save has the content of the map that arrived.
C15_ArrivingMapShown ==
    [][ ((LoadTimeRulesResolve \/ RefreshResolve) /\ mounted) =>
           Content(localTimeRules', heap') = Content(timeRules', heap') ]_vars

\* C16: a write of the rule document, from here or from another client,
\* leaves the store holding exactly the data of that write, whatever it held
\* before, and nothing else changes the document; so of two racing saves the
\* document is the map of the one the store applied last.
C16_LastWriteWins ==
    [][ /\ SetDocApplied => storeRules' = StoredDocument(saveData)
        /\ \A d \in StoredRuleMaps :
              RemoteUpdateTimeRules(d) => storeRules' = StoredDocument(d)
        /\ storeRules' # storeRules =>
              SetDocApplied \/ \E d \in StoredRuleMaps : RemoteUpdateTimeRules(d) ]_vars

\* the save of Settings reached the store, the other client's write was
\* applied after it, and an entry Settings had saved is gone
C16_Witness ==
    /\ savePc = "written"
    /\ edits > 0
    /\ storeRules.exists
    /\ storeRules.data # saveData
    /\ \E s \in SlotIds : Has(saveData, s) /\ ~Has(storeRules.data, s)

(***************************************************************************)
(* Claims about the time conversions and the time-slot form                *)
(***************************************************************************)
\* hour and minutes of "HH:MM", read by position
HourOf24(t) == DigitVal(t[1]) * 10 + DigitVal(t[2])
MinutesOf24(t) == SubSeq(t, 4, 5)

\* hour, minutes and period of "h:mm AM" or "hh:mm PM", read by position
HourOf12(s) == IF Len(s) = 7 THEN DigitVal(s[1]) ELSE DigitVal(s[1]) * 10 + DigitVal(s[2])
MinutesOf12(s) == SubSeq(s, Len(s) - 4, Len(s) - 3)
PeriodOf12(s) == SubSeq(s, Len(s) - 1, Len(s))

\* the 12-hour string the claim gives for a 24-hour string
Expected12(t) ==
    IF t = <<>> THEN <<>>
    ELSE LET h == HourOf24(t)
         IN  CASE h = 0 -> <<"1", "2", ":">> \o MinutesOf24(t) \o <<" ", "A", "M">>
               [] h = 12 -> <<"1", "2", ":">> \o MinutesOf24(t) \o <<" ", "P", "M">>
               [] h > 12 -> toString(h - 12) \o <<":">> \o MinutesOf24(t) \o <<" ", "P", "M">>
               [] OTHER -> toString(h) \o <<":">> \o MinutesOf24(t) \o <<" ", "A", "M">>

\* the 24-hour string the claim gives for a 12-hour string
Expected24(s) ==
    LET h == HourOf12(s)
        hour == CASE PeriodOf12(s) = <<"A", "M">> /\ h = 12 -> 0
                  [] PeriodOf12(s) = <<"P", "M">> /\ h = 12 -> 12
                  [] PeriodOf12(s) = <<"P", "M">> /\ h # 12 -> h + 12
                  [] OTHER -> h
    IN  TwoDigits(hour) \o <<":">> \o MinutesOf12(s)

HalfHourTimes == {TwoDigits(h) \o <<":">> \o TwoDigits(m) : h \in 0..23, m \in {0, 30}}

\* C17: a valid stored time HH:MM comes back as it was from
\* convertTo24Hour(convertTo12Hour(t)); a slot opened for editing and sent
\* unchanged is sent with the startTime and endTime it had.
C17_RoundTrip ==
    /\ \A n \in 1..Len(storeSlots) :
          /\ storeSlots[n].startTime # <<>> =>
                convertTo24Hour(convertTo12Hour(storeSlots[n].startTime)) = storeSlots[n].startTime
          /\ storeSlots[n].endTime # <<>> =>
                convertTo24Hour(convertTo12Hour(storeSlots[n].endTime)) = storeSlots[n].endTime
    /\ (submitCall # <<>> /\ editingTimeSlot # <<>>) =>
          /\ submitCall[1].data.startTime = editingTimeSlot[1].startTime
          /\ submitCall[1].data.endTime = editingTimeSlot[1].endTime

C17_Witness ==
    /\ submitPc = "applied"
    /\ editingTimeSlot # <<>>
    /\ timeSlotForm.startTime12 = <<"1", "2", ":", "1", "5", " ", "A", "M">>
    /\ storeSlots[1].startTime = <<"0", "0", ":", "1", "5">>

\* C18: convertTo12Hour gives 12 AM for hour 0, 12 PM for hour 12, hour - 12 PM
\* for 13..23, hour AM for 1..11, with the minutes kept, and the empty string
\* for the empty string: for every stored time, and in the form of a slot
\* opened for editing.
C18_To12Hour ==
    /\ \A n \in 1..Len(storeSlots) :
          /\ convertTo12Hour(storeSlots[n].startTime) = Expected12(storeSlots[n].startTime)
          /\ convertTo12Hour(storeSlots[n].endTime) = Expected12(storeSlots[n].endTime)
    /\ editingTimeSlot # <<>> =>
          /\ timeSlotForm.startTime12 = Expected12(editingTimeSlot[1].startTime)
          /\ timeSlotForm.endTime12 = Expected12(editingTimeSlot[1].endTime)

C18_Witness ==
    /\ showTimeSlotDialog
    /\ editingTimeSlot # <<>>
    /\ editingTimeSlot[1].startTime = <<>>
    /\ editingTimeSlot[1].endTime = <<"1", "2", ":", "0", "0">>
    /\ timeSlotForm.startTime12 = <<>>
    /\ timeSlotForm.endTime12 = <<"1", "2", ":", "0", "0", " ", "P", "M">>

\* C19: convertTo24Hour gives hour 00 for 12 AM, 12 for 12 PM, hour + 12 for
\* the other PM hours, the hour itself for AM hours below 12, two digits
\* always, with the minutes kept: when the form is sent, for its two times and
\* for every entry of the time menu they can have been chosen from.
C19_To24Hour ==
    [][ (handleTimeSlotSubmit /\ submitPc' = "sent") =>
           /\ submitCall'[1].data.startTime = Expected24(timeSlotForm.startTime12)
           /\ submitCall'[1].data.endTime = Expected24(timeSlotForm.endTime12)
           /\ \A k \in 1..Len(generateTimeOptions) :
                 convertTo24Hour(generateTimeOptions[k]) = Expected24(generateTimeOptions[k]) ]_vars

C19_Witness ==
    /\ submitPc = "sent"
    /\ submitOwner
    /\ timeSlotForm.startTime12 = MenuEntry(12, 0, AM)
    /\ submitCall[1].data.startTime = <<"0", "0", ":", "0", "0">>
    /\ timeSlotForm.endTime12 = <<"6", ":", "0", "0", " ", "P", "M">>
    /\ submitCall[1].data.endTime = <<"1", "8", ":", "0", "0">>

\* C20: every slot document and every timeSlotData on its way to the store
\* has startTime and endTime among the 48 strings HH:MM with HH in 00..23 and
\* MM in 00, 30; and while a form is being sent, so has the conversion of
\* every menu entry and of every template time as the form holds it.
C20_StoredTimes24Hour ==
    /\ \A n \in 1..Len(storeSlots) :
          storeSlots[n].startTime \in HalfHourTimes /\ storeSlots[n].endTime \in HalfHourTimes
    /\ submitCall # <<>> =>
          /\ submitCall[1].data.startTime \in HalfHourTimes
          /\ submitCall[1].data.endTime \in HalfHourTimes
    /\ formSubmitting =>
          /\ \A k \in 1..Len(generateTimeOptions) :
                convertTo24Hour(generateTimeOptions[k]) \in HalfHourTimes
          /\ \A i \in 1..Len(TIME_SLOT_TEMPLATES) :
                /\ convertTo24Hour(convertTo12Hour(TIME_SLOT_TEMPLATES[i].defaultStart))
                      \in HalfHourTimes
                /\ convertTo24Hour(convertTo12Hour(TIME_SLOT_TEMPLATES[i].defaultEnd))
                      \in HalfHourTimes

C20_Witness ==
    \E n \in 1..Len(storeSlots) :
       /\ storeSlots[n].id = SlotIdPool[3]
       /\ storeSlots[n].startTime = <<"1", "3", ":", "3", "0">>
       /\ storeSlots[n].endTime = <<"2", "2", ":", "0", "0">>

(***************************************************************************)
(* Claims about the dialog's validation                                    *)
(***************************************************************************)
\* C21: sending the time-slot form while its start time or its end time is
\* empty changes nothing: the store keeps its documents, no call is started,
\* and the form, the slot being edited, the dialog and the submitting flag
\* stay as they were.  What the store applies always carries both times.
C21_EmptyTimeRejected ==
    [][ /\ (handleTimeSlotSubmit
              /\ (timeSlotForm.startTime12 = <<>> \/ timeSlotForm.endTime12 = <<>>))
           => /\ UNCHANGED <<storeVars, timeSlotForm, editingTimeSlot, showTimeSlotDialog,
                             formSubmitting, submitPc, submitCall, submitOwner>>
              /\ submitPc = "idle"
              /\ submitCall = <<>>
        /\ SubmitApplied
           => /\ submitCall[1].data.startTime # <<>>
              /\ submitCall[1].data.endTime # <<>> ]_vars

\* a named form with a start time and no end time has been sent and refused,
\* and the dialog still shows it
C21_Witness ==
    /\ alerts > 0
    /\ showTimeSlotDialog
    /\ ~formSubmitting
    /\ submitPc = "idle"
    /\ timeSlotForm.name = "brunch"
    /\ timeSlotForm.startTime12 # <<>>
    /\ timeSlotForm.endTime12 = <<>>
    /\ storeSlots = InitialStoreSlots

(***************************************************************************)
(* Claims about the order of an allow-list                                 *)
(***************************************************************************)
\* the reference the handler builds for a category id
RefOfCategory(categoryId) ==
    LET i == CHOOSE n \in 1..Len(categories) : categories[n].id = categoryId
    IN  CategoryRef(i)

\* C22: checking a category that is not in the slot's allow-list puts it
\* after the ones already there; unchecking a category takes it out and
\* leaves the others in the order they had; and when a deletion of the slot
\* completes, the rule set has no key for it.
C22_InsertionOrder ==
    [][ /\ \A s \in SlotIds, c \in CategoryIds :
              ToggleCategory(s, c, TRUE) =>
                 AllowList(localTimeRules', heap', s) =
                    IF Occurrences(AllowList(localTimeRules, heap, s), c) > 0
                    THEN AllowList(localTimeRules, heap, s)
                    ELSE Append(AllowList(localTimeRules, heap, s), RefOfCategory(c))
        /\ \A s \in SlotIds, c \in CategoryIds :
              ToggleCategory(s, c, FALSE) =>
                 AllowList(localTimeRules', heap', s) =
                    SelectSeq(AllowList(localTimeRules, heap, s), LAMBDA x : x.id # c)
        /\ \A s \in SlotIds :
              (DeleteTimeSlotResolve(s) /\ delOwner[s]) => ~Has(localTimeRules', s) ]_vars

\* c1 then c2 were checked and c1 unchecked, which leaves c2 alone, and the
\* store has deleted the slot: the handler's cleanup is the next step
C22_Witness ==
    /\ mounted
    /\ edits >= 3
    /\ AllowList(localTimeRules, heap, SlotIdPool[1]) = <<CategoryRef(2)>>
    /\ AllowList(delClosure[SlotIdPool[1]], heap, SlotIdPool[1]) = <<CategoryRef(2)>>
    /\ delPc[SlotIdPool[1]] = "deleted"
    /\ delOwner[SlotIdPool[1]]

(***************************************************************************)
(* Claims about deletions that fail or overlap                             *)
(***************************************************************************)
\* C23: when the deletion of a slot is rejected by the store, the rule set of
\* Settings is the one it was: the slot's entry, if it had one, is still there
\* with the same content, and so is every other entry.
C23_FailedDeleteKeepsRules ==
    [][ \A s \in SlotIds :
          DeleteTimeSlotReject(s) =>
             /\ Has(localTimeRules, s) => Has(localTimeRules', s)
             /\ Content(localTimeRules', heap') = Content(localTimeRules, heap) ]_vars

\* the deletion of a slot has been rejected (its document is in the store and
\* the indicator it set has been cleared while another deletion is still in
\* flight), and the slot has its rule entry
C23_Witness ==
    \E s \in SlotIds, other \in SlotIds :
       /\ s # other
       /\ mounted
       /\ delPc[s] = "idle"
       /\ delPc[other] = "sent"
       /\ delOwner[other]
       /\ deletingTimeSlot = <<>>
       /\ s \in SlotListIds(storeSlots)
       /\ Has(localTimeRules, s)
       /\ Len(AllowList(localTimeRules, heap, s)) > 0

\* C24: when a deletion started from Settings completes, every entry the rule
\* set has for another slot is still there with its allow-list, also an entry
\* that a toggle created while the store's answer was awaited.
C24_TogglesSurviveDelete ==
    [][ \A s \in SlotIds :
          (DeleteTimeSlotResolve(s) /\ delOwner[s]) =>
             \A k \in SlotIds \ {s} :
                Has(localTimeRules, k) =>
                   /\ Has(localTimeRules', k)
                   /\ AllowList(localTimeRules', heap', k) = AllowList(localTimeRules, heap, k) ]_vars

\* C25: the deleting indicator is on a slot exactly while a deletion of it,
\* started from this Settings, is in flight; and once no deletion is in flight
\* the rule set has no entry for a slot this Settings has deleted (no checkbox
\* having been changed).
C25_OverlappingDeletes ==
    /\ \A s \in SlotIds :
          (deletingTimeSlot = <<s>>) <=> (delOwner[s] /\ delPc[s] # "idle")
    /\ (edits = 0 /\ \A s \in SlotIds : delPc[s] = "idle") =>
          \A s \in SlotIds \ SlotListIds(storeSlots) : ~Has(localTimeRules, s)

(***************************************************************************)
(* Claims about rendering                                                  *)
(***************************************************************************)
\* C26: a render of Settings with the Time Slots tab leaves the slot list in
\* an order in which the resolver returns, at every time of day, the slot it
\* returns from the list as the store delivered it.
C26_RenderKeepsOrder ==
    [][ \A now \in NowSamples :
          Render(now) =>
             \A t \in NowSamples :
                getCurrentTimeSlot(timeSlots', t) = getCurrentTimeSlot(timeSlots, t) ]_vars

(***************************************************************************)
(* Claims about the template windows                                       *)
(***************************************************************************)
\* the number of slots of a list whose window the resolver finds a time in
MatchCount(slots, now) == Cardinality({i \in 1..Len(slots) : SlotMatches(slots[i], now)})

\* the minutes at which a slot of the list starts
StartingMinutes(slots) == {StartMinutes(slots[i]) : i \in 1..Len(slots)}

\* C27 as stated: with the four template slots active, every minute of the day
\* is in the window of exactly one of them (counted on the list as delivered
\* and at the time of every render).
C27_TemplatesPartitionDay ==
    /\ ~rendered => \A m \in DayMinutes : MatchCount(timeSlots, m) = 1
    /\ rendered => MatchCount(timeSlots, currentTime) = 1

\* C27 amended: with the four template slots active, every minute of the day
\* is in the window of at least one of them; the four minutes at which a
\* window starts (06:00, 12:00, 18:00, 22:00) are in two windows, the one that
\* starts there and the one that ends there, and every other minute is in
\* exactly one (counted on the list as delivered and at the time of every
\* render); so a render returns a slot at every time of day.
C27_TemplatesCoverDay ==
    /\ Cardinality(StartingMinutes(timeSlots)) = Len(TIME_SLOT_TEMPLATES)
    /\ ~rendered =>
          \A m \in DayMinutes :
             MatchCount(timeSlots, m) = IF m \in StartingMinutes(timeSlots) THEN 2 ELSE 1
    /\ rendered =>
          /\ MatchCount(timeSlots, currentTime) =
                IF currentTime \in StartingMinutes(timeSlots) THEN 2 ELSE 1
          /\ currentSlot # <<>>
          /\ SlotMatches(currentSlot[1], currentTime)

\* a render at 12:00 of a list in which afternoon precedes morning has returned
\* afternoon, one of the two slots whose window holds 12:00
C27_Witness ==
    /\ rendered
    /\ currentTime = 720
    /\ Len(timeSlots) = Len(TIME_SLOT_TEMPLATES)
    /\ \A i \in 1..Len(timeSlots) : timeSlots[i].isActive
    /\ MatchCount(timeSlots, currentTime) = 2
    /\ currentSlot # <<>>
    /\ currentSlot[1].name = "afternoon"

(***************************************************************************)
(* Claims about the time menu                                              *)
(***************************************************************************)
\* the entries of the time menu
MenuEntries == {generateTimeOptions[k] : k \in 1..Len(generateTimeOptions)}

\* C28: while a stored slot is open for editing: the time menu has 48 entries,
\* all different; convertTo24Hour takes them one-to-one onto the 48 half-hour
\* times 00:00..23:30; converting an entry to 24-hour form and back gives the
\* entry; and the start and end time the dialog shows are entries of the menu.
C28_MenuBijection ==
    (showTimeSlotDialog /\ editingTimeSlot # <<>>) =>
       /\ Len(generateTimeOptions) = 48
       /\ Cardinality(MenuEntries) = 48
       /\ Cardinality(HalfHourTimes) = 48
       /\ {convertTo24Hour(s) : s \in MenuEntries} = HalfHourTimes
       /\ \A s \in MenuEntries : convertTo12Hour(convertTo24Hour(s)) = s
       /\ \A t \in HalfHourTimes : convertTo12Hour(t) \in MenuEntries
       /\ timeSlotForm.startTime12 \in MenuEntries
       /\ timeSlotForm.endTime12 \in MenuEntries

\* the afternoon slot, stored as 12:00-18:00, is open for editing and the
\* dialog shows the menu entries 12:00 PM and 6:00 PM
C28_Witness ==
    /\ showTimeSlotDialog
    /\ editingTimeSlot # <<>>
    /\ editingTimeSlot[1].startTime = <<"1", "2", ":", "0", "0">>
    /\ editingTimeSlot[1].endTime = <<"1", "8", ":", "0", "0">>
    /\ timeSlotForm.startTime12 = MenuEntry(12, 0, PM)
    /\ timeSlotForm.endTime12 = MenuEntry(6, 0, PM)

(***************************************************************************)
(* Claims about the saving flag                                            *)
(***************************************************************************)
\* C29: the saving flag of a Settings is set exactly while a save it started
\* is in flight; while it is set, that Settings starts no save and no
\* checkbox change; and whenever it is set it is cleared later, whether the
\* write is applied or rejected.
C29_SavingFlag ==
    /\ [](saving <=> (saveOwner /\ savePc # "idle"))
    /\ [][ saving =>
             /\ ~handleSaveTimeRules
             /\ \A s \in SlotIds, c \in CategoryIds, checked \in BOOLEAN :
                   ~ToggleCategory(s, c, checked) ]_vars
    /\ (saving ~> ~saving)

\* a save of edited rules is in flight, the store has applied the write, and
\* the flag is set
C29_Witness ==
    /\ mounted
    /\ saving
    /\ saveOwner
    /\ savePc = "written"
    /\ edits > 0
    /\ storeRules = StoredDocument(saveData)

====
